---- MODULE Spec2Model ----
(***************************************************************************)
(* Segmentation, idempotent vector storage and retrieval validation of the *)
(* textbook RAG backend:                                                   *)
(*   backend/ingestion-service   (chunk_text, IngestionService,            *)
(*                                QdrantStorage)                           *)
(*   backend/retrieval-validation (RetrievalService, similarity utils,     *)
(*                                ValidationService)                       *)
(*   backend/rag-chatbot/utils   (QdrantRetriever)                         *)
(*                                                                         *)
(* Numbers that are floats in the code are kept in thousandths (0.5 is     *)
(* 500).  A text is a sequence of tokens; a token of a page is the number  *)
(* of its position in the page, so two pages share a chunk text exactly    *)
(* when they share that token range.                                       *)
(***************************************************************************)
EXTENDS Integers, Sequences, FiniteSets, TLC

\* ------------------------------------------------------------------------
\* Bounds of the model
\* ------------------------------------------------------------------------
MaxSentences == 3
MaxSentenceTokens == 3
MaxRuns == 2
\* settings.py CHUNK_SIZE_MIN / CHUNK_SIZE_MAX / CHUNK_OVERLAP, scaled down
ModelChunkMin == 2
ModelChunkMax == 3
ModelChunkOverlap == 1
\* characters per token, for the length test of the short-text shortcut
TokenChars == 40
\* batch_size of upsert_vectors, scaled down
ModelBatchSize == 2
\* batch_size of EmbeddingService.generate_embeddings, scaled down
ModelEmbedBatch == 2
\* longest list of texts handed to generate_embeddings
MaxTexts == 3
\* largest RETRY_ATTEMPTS setting explored (the default is 3)
MaxAttempts == 3

\* ------------------------------------------------------------------------
\* Sequence helpers
\* ------------------------------------------------------------------------
RECURSIVE SumSeq(_)
SumSeq(s) ==
  IF s = <<>> THEN 0
  ELSE IF Len(s) = 1 THEN s[1]
  ELSE LET h == Len(s) \div 2
       IN SumSeq(SubSeq(s, 1, h)) + SumSeq(SubSeq(s, h + 1, Len(s)))

RECURSIVE SeqsUpTo(_, _)
SeqsUpTo(S, n) ==
  IF n = 0 THEN {<<>>}
  ELSE LET shorter == SeqsUpTo(S, n - 1)
       IN shorter \cup {Append(q, x) : q \in {r \in shorter : Len(r) = n - 1}, x \in S}

LastN(s, n) == IF Len(s) <= n THEN s ELSE SubSeq(s, Len(s) - n + 1, Len(s))

Min2(a, b) == IF a <= b THEN a ELSE b

RECURSIVE Flatten(_)
Flatten(ss) ==
  IF ss = <<>> THEN <<>>
  ELSE IF Len(ss) = 1 THEN ss[1]
  ELSE LET h == Len(ss) \div 2
       IN Flatten(SubSeq(ss, 1, h)) \o Flatten(SubSeq(ss, h + 1, Len(ss)))

\* token 0 is a blank
RECURSIVE LStrip(_)
LStrip(t) == IF t # <<>> /\ t[1] = 0 THEN LStrip(Tail(t)) ELSE t

RECURSIVE RStrip(_)
RStrip(t) ==
  IF t # <<>> /\ t[Len(t)] = 0 THEN RStrip(SubSeq(t, 1, Len(t) - 1)) ELSE t

\* str.strip()
Strip(t) == RStrip(LStrip(t))

\* ------------------------------------------------------------------------
\* Tokenizer and segmenter (utils/tokenization.py)
\* ------------------------------------------------------------------------
\* re.split on sentence boundaries: a page given by its sentence lengths
\* becomes the list of its sentences, tokens numbered by position.
SplitSentences(lens) ==
  [j \in 1..Len(lens) |->
     LET before == SumSeq(SubSeq(lens, 1, j - 1))
     IN [k \in 1..lens[j] |-> before + k]]

\* count_tokens of a text that has no trailing whitespace
count_tokens(toks) == Len(toks)

\* count_tokens of a text built as  <tokens> + " " : the trailing blank is
\* encoded as a token of its own; the empty text plus a blank is one token.
count_tokens_sp(toks) == Len(toks) + 1

\* len(text) in characters
CharLen(toks) == Len(toks) * TokenChars

\* the overlap taken from the head of the last chunk instead of its tail
get_overlap_text_head(chunks, overlap_tokens) ==
  IF chunks = <<>> THEN <<>>
  ELSE LET last_chunk == chunks[Len(chunks)].text
       IN IF count_tokens(last_chunk) <= overlap_tokens
          THEN last_chunk
          ELSE SubSeq(last_chunk, 1, overlap_tokens)

\* _get_overlap_text without its trailing blank
get_overlap_text(chunks, overlap_tokens) ==
  IF chunks = <<>> THEN <<>>
  ELSE LET last_chunk == chunks[Len(chunks)].text
       IN IF count_tokens(last_chunk) <= overlap_tokens
          THEN last_chunk
          ELSE LastN(last_chunk, overlap_tokens)

\* a chunk appended by the loop: 'text': current_chunk.strip()
MkChunk(text, cnt) == [text |-> Strip(text), token_count |-> cnt]

\* the loop, restarting a chunk from the overlap alone when a sentence
\* overflows: the sentence is lost
RECURSIVE ChunkLoopLosing(_, _, _, _, _)
ChunkLoopLosing(S, st, mn, mx, ov) ==
  IF st.i > Len(S)
  THEN IF st.cur # <<>>
       THEN Append(st.chunks, MkChunk(st.cur, st.cnt))
       ELSE st.chunks
  ELSE
    LET s  == S[st.i]
        sc == count_tokens(s)
    IN
    IF st.cnt + sc > mx /\ st.cur # <<>>
    THEN \* close the current chunk, start the next one with the sentence
      LET closed == Append(st.chunks, MkChunk(st.cur, st.cnt))
          ovt    == get_overlap_text(closed, ov)
      IN IF ov > 0
         THEN ChunkLoopLosing(S, [i |-> st.i + 1, chunks |-> closed,
                            cur |-> ovt,
                            cnt |-> count_tokens_sp(ovt) + sc], mn, mx, ov)
         ELSE ChunkLoopLosing(S, [i |-> st.i + 1, chunks |-> closed,
                            cur |-> s, cnt |-> sc], mn, mx, ov)
    ELSE \* add the sentence, then close eagerly if the next one overflows
      LET cur2 == st.cur \o s
          cnt2 == st.cnt + sc
          i2   == st.i + 1
      IN IF cnt2 >= mn /\ i2 <= Len(S) /\ cnt2 + count_tokens(S[i2]) > mx
         THEN LET closed == Append(st.chunks, MkChunk(cur2, cnt2))
                  ovt    == get_overlap_text(closed, ov)
              IN IF ov > 0
                 THEN ChunkLoopLosing(S, [i |-> i2, chunks |-> closed,
                                    cur |-> ovt,
                                    cnt |-> count_tokens_sp(ovt)], mn, mx, ov)
                 ELSE ChunkLoopLosing(S, [i |-> i2, chunks |-> closed,
                                    cur |-> <<>>, cnt |-> 0], mn, mx, ov)
         ELSE ChunkLoopLosing(S, [i |-> i2, chunks |-> st.chunks,
                            cur |-> cur2, cnt |-> cnt2], mn, mx, ov)

\* one iteration of the loop of chunk_text; st = [i, chunks, cur, cnt]
ChunkStep(S, st, mn, mx, ov) ==
    LET s  == S[st.i]
        sc == count_tokens(s)
    IN
    IF st.cnt + sc > mx /\ st.cur # <<>>
    THEN \* close the current chunk, start the next one with the sentence
      LET closed == Append(st.chunks, MkChunk(st.cur, st.cnt))
          ovt    == get_overlap_text(closed, ov)
      IN IF ov > 0
         THEN [i |-> st.i + 1, chunks |-> closed, cur |-> ovt \o s,
               cnt |-> count_tokens_sp(ovt) + sc]
         ELSE [i |-> st.i + 1, chunks |-> closed, cur |-> s, cnt |-> sc]
    ELSE \* add the sentence, then close eagerly if the next one overflows
      LET cur2 == st.cur \o s
          cnt2 == st.cnt + sc
          i2   == st.i + 1
      IN IF cnt2 >= mn /\ i2 <= Len(S) /\ cnt2 + count_tokens(S[i2]) > mx
         THEN LET closed == Append(st.chunks, MkChunk(cur2, cnt2))
                  ovt    == get_overlap_text(closed, ov)
              IN IF ov > 0
                 THEN [i |-> i2, chunks |-> closed, cur |-> ovt,
                       cnt |-> count_tokens_sp(ovt)]
                 ELSE [i |-> i2, chunks |-> closed, cur |-> <<>>, cnt |-> 0]
         ELSE [i |-> i2, chunks |-> st.chunks, cur |-> cur2, cnt |-> cnt2]

\* the return without the remaining chunk
ChunkEndDropping(st) == st.chunks

\* after the loop: the remaining chunk is added
ChunkEnd(st) ==
  IF st.cur # <<>>
  THEN Append(st.chunks, MkChunk(st.cur, st.cnt))
  ELSE st.chunks

\* the loop of chunk_text over the sentences S, from the locals st
RECURSIVE ChunkLoop(_, _, _, _, _)
ChunkLoop(S, st, mn, mx, ov) ==
  IF st.i > Len(S) THEN ChunkEnd(st)
  ELSE ChunkLoop(S, ChunkStep(S, st, mn, mx, ov), mn, mx, ov)

\* A text as chunk_text receives it: whether blanks lead it, the lengths of
\* its sentences, whether the last sentence ends with . ! or ?, and whether
\* blanks trail it.  Sentences are separated by blanks.
RawInput(lead, lens, term, trail) ==
  [lead |-> lead, lens |-> lens, term |-> term, trail |-> trail]

\* the text itself, its blanks at both ends included
RawText(raw) ==
  (IF raw.lead THEN <<0>> ELSE <<>>)
  \o Flatten(SplitSentences(raw.lens))
  \o (IF raw.trail THEN <<0>> ELSE <<>>)

\* re.split(r'(?<=[.!?])\s+', text): trailing blanks after a terminator split
\* off an empty last sentence, trailing blanks after anything else stay in
\* the last sentence (and count as one token); leading blanks stay in the
\* first sentence and merge into its first token
SplitRaw(raw) ==
  LET S == SplitSentences(raw.lens)
      n == Len(S)
  IN IF n = 0 \/ ~raw.trail THEN S
     ELSE IF raw.term THEN Append(S, <<>>)
     ELSE [S EXCEPT ![n] = Append(S[n], 0)]

\* len(sentences[0]) when the text is one sentence
RawCharLen(raw) ==
  CharLen(Flatten(SplitSentences(raw.lens)))
  + (IF raw.lead THEN 1 ELSE 0) + (IF raw.trail THEN 1 ELSE 0)

\* chunk_text without its short-text return
chunk_text_raw_loop_only(raw, mn, mx, ov) ==
  IF Strip(RawText(raw)) = <<>> THEN <<>>
  ELSE ChunkLoop(SplitRaw(raw), [i |-> 1, chunks |-> <<>>, cur |-> <<>>, cnt |-> 0],
                 mn, mx, ov)

\* chunk_text(text, min_tokens, max_tokens, overlap)
chunk_text_raw(raw, mn, mx, ov) ==
  IF Strip(RawText(raw)) = <<>> THEN <<>>
  ELSE LET S == SplitRaw(raw)
       IN IF Len(S) = 1 /\ RawCharLen(raw) < 100
          THEN <<[text |-> RawText(raw),
                  token_count |-> IF raw.trail
                                  THEN count_tokens_sp(Flatten(SplitSentences(raw.lens)))
                                  ELSE count_tokens(Flatten(SplitSentences(raw.lens)))]>>
          ELSE ChunkLoop(S, [i |-> 1, chunks |-> <<>>, cur |-> <<>>, cnt |-> 0],
                         mn, mx, ov)

\* chunk_text of a page's cleaned content, which has no blanks at its ends
chunk_text(lens, mn, mx, ov) ==
  chunk_text_raw(RawInput(FALSE, lens, TRUE, FALSE), mn, mx, ov)

\* ------------------------------------------------------------------------
\* State
\* ------------------------------------------------------------------------
VARIABLES
  site,           \* the corpus: url -> page content (sentence lengths)
  model_dim,      \* dimension of the document embeddings of COHERE_MODEL
  store,          \* points of the Qdrant collection
  coll_dim,       \* vector size of the collection, 0 when it does not exist
  stats,          \* IngestionService.stats
  content_pages,  \* AsyncCrawler.content_pages
  failed_urls,    \* AsyncCrawler.failed_urls
  client_closed,  \* AsyncCrawler.client after aclose()
  pc,             \* position of run_ingestion_pipeline
  crawled_pages,  \* local of run_ingestion_pipeline
  chunks,         \* local of run_ingestion_pipeline
  cwe,            \* chunks_with_embeddings
  report,         \* value returned by the last run
  runs,           \* number of runs started (also the clock of created_at)
  store_at_start, \* history: the store when the current run started
  failed_stages,  \* history: stages that failed in the current run
  written,        \* history: items handed to client.upsert in the current run
  skipped,        \* history: items filtered out as existing in the current run
  check_failed,   \* history: items whose existence check raised in the current run
  gave_up,        \* history: urls process_url gave up on in the current run
  cin,            \* segmenter harness: input of chunk_text
  cout,           \* segmenter harness: result of chunk_text
  cpc,            \* segmenter harness: position
  cst,            \* segmenter harness: locals of the loop of chunk_text
  sentences,      \* segmenter harness: the sentences chunk_text has split
  emb,            \* embedding harness: locals of EmbeddingService.generate_embeddings
  ing,            \* concurrent ingesters: locals of idempotent_upsert per ingester
  provider,       \* embedding model: direction of the vector of a stored text
  sklearn,        \* whether scikit-learn can be imported
  qin,            \* retrieval: the call being made
  qout,           \* retrieval: what the call returned
  qpc,            \* retrieval: position
  embed_calls,    \* history: calls made to the embedding provider
  store_calls,    \* history: calls made to the vector store
  rin,            \* relevance harness: arguments of calculate_semantic_relevance
  rout,           \* relevance harness: its result
  rpc             \* relevance harness: position

ingestVars == <<site, model_dim, store, coll_dim, stats, content_pages,
                failed_urls, client_closed, pc, crawled_pages, chunks, cwe,
                report, runs, store_at_start, failed_stages, written, skipped,
                check_failed, gave_up>>
chunkVars == <<cin, cout, cpc, cst, sentences>>
queryVars == <<provider, sklearn, qin, qout, qpc, embed_calls, store_calls>>
relVars == <<rin, rout, rpc>>
harnessVars == <<emb, ing>>
vars == <<ingestVars, chunkVars, queryVars, relVars, harnessVars>>

\* ------------------------------------------------------------------------
\* Ingestion (src/ingestion_service.py, src/crawler.py, src/qdrant_service.py)
\* ------------------------------------------------------------------------
SitemapUrls == <<"u1", "u2">>
URLs == {SitemapUrls[k] : k \in 1..Len(SitemapUrls)}
\* page contents of the corpus, as sentence lengths: a page too short to be
\* kept, a one-sentence page, and a page that repeats it and goes on
PagePool == {<<1>>, <<2>>, <<2, 2>>}
ModelDims == {768, 1024}

HashBase == MaxSentences * MaxSentenceTokens + 1

\* hashlib.md5(text.encode()).hexdigest(): a digest that tells texts apart
RECURSIVE md5(_)
md5(toks) == IF toks = <<>> THEN 0
             ELSE md5(SubSeq(toks, 1, Len(toks) - 1)) * HashBase + toks[Len(toks)]

\* stats as set by IngestionService.__init__
InitStats == [pages_crawled |-> 0, chunks_processed |-> 0,
              embeddings_generated |-> 0, vectors_stored |-> 0,
              errors |-> <<>>]

NoReport == [status |-> "none", pages_crawled |-> 0, chunks_processed |-> 0,
             embeddings_generated |-> 0, vectors_stored |-> 0, errors |-> <<>>]

\* IngestionService._get_summary_report
get_summary_report(st) ==
  [status |-> IF st.errors # <<>> THEN "completed_with_errors"
              ELSE "completed_successfully",
   pages_crawled |-> st.pages_crawled,
   chunks_processed |-> st.chunks_processed,
   embeddings_generated |-> st.embeddings_generated,
   vectors_stored |-> st.vectors_stored,
   errors |-> st.errors]

\* AsyncCrawler.process_url on a 200 response: the page, or nothing when the
\* main content is not longer than 50 characters
PageOf(u, lens) ==
  IF SumSeq(lens) * TokenChars > 50
  THEN <<[url |-> u, title |-> u, content |-> lens,
          content_hash |-> md5(Flatten(SplitSentences(lens)))]>>
  ELSE <<>>

\* attempts of process_url per url (settings.RETRY_ATTEMPTS)
RETRY_ATTEMPTS == 3

\* what one attempt of process_url meets: a 200 response, another status, or
\* an exception of client.get
Responses == {"ok", "status", "error"}
AttemptPatterns == [1..RETRY_ATTEMPTS -> Responses]

\* the loop of process_url from attempt n on: "ok" when a 200 response is
\* processed, "fail" when the last attempt raises and the url is appended to
\* failed_urls, "status" when the loop ends on another status
RECURSIVE process_url(_, _)
process_url(att, n) ==
  IF n > RETRY_ATTEMPTS THEN "status"
  ELSE IF att[n] = "ok" THEN "ok"
  ELSE IF att[n] = "error" /\ n = RETRY_ATTEMPTS THEN "fail"
  ELSE process_url(att, n + 1)

UrlOutcomes == {process_url(att, 1) : att \in AttemptPatterns}

\* the pages and failures the loop of crawl_site adds for an outcome per url
RECURSIVE Fetch(_, _, _)
Fetch(k, outcome, st) ==
  IF k > Len(SitemapUrls) THEN st
  ELSE LET u == SitemapUrls[k]
       IN Fetch(k + 1, outcome,
                IF outcome[u] = "ok"
                THEN [st EXCEPT !.pages = @ \o PageOf(u, site[u])]
                ELSE IF outcome[u] = "fail"
                THEN [st EXCEPT !.failed = Append(@, u)]
                ELSE st)

\* ContentProcessor.process_content
RECURSIVE process_content(_)
process_content(pgs) ==
  IF pgs = <<>> THEN <<>>
  ELSE LET page == pgs[1]
           cs   == chunk_text(page.content, ModelChunkMin, ModelChunkMax,
                              ModelChunkOverlap)
       IN [i \in 1..Len(cs) |->
             [url |-> page.url, title |-> page.title, text |-> cs[i].text,
              token_count |-> cs[i].token_count, position |-> i - 1]]
          \o process_content(Tail(pgs))

\* IngestionService.generate_embeddings: every chunk with its embedding (kept
\* as its dimension) and the content hash of its text
WithEmbeddings(cs, dim) ==
  [i \in 1..Len(cs) |->
     [url |-> cs[i].url, title |-> cs[i].title, text |-> cs[i].text,
      position |-> cs[i].position,
      token_count |-> cs[i].token_count, dim |-> dim,
      content_hash |-> md5(cs[i].text)]]

\* a point id that also depends on the time of the write
VectorIdStamped(payload) == payload.content_hash * (MaxRuns + 2) + payload.created_at

\* a point id keyed on the url as well as on the text
VectorIdPerUrl(payload) ==
  payload.content_hash * 2 + (IF payload.url = SitemapUrls[1] THEN 0 ELSE 1)

\* store_vectors: vector_id = chunk['content_hash']
VectorId(payload) == payload.content_hash

\* store_vectors: the item built for one chunk
VectorItem(c, now) ==
  LET payload == [url |-> c.url, title |-> c.title, text |-> c.text,
                  position |-> c.position,
                  token_count |-> c.token_count,
                  content_hash |-> c.content_hash, created_at |-> now]
  IN [id |-> VectorId(payload), dim |-> c.dim, payload |-> payload]

\* QdrantStorage._vector_exists; a failing scroll is answered with False
vector_exists(st, content_hash, scroll_fails) ==
  IF scroll_fails THEN FALSE
  ELSE \E p \in st : p.payload.content_hash = content_hash

\* idempotent_upsert: the items kept for upload, by index; all checks are
\* made before the first write
RECURSIVE FilterNew(_, _, _, _)
FilterNew(vd, st, checkFail, k) ==
  IF k > Len(vd) THEN <<>>
  ELSE (IF vector_exists(st, vd[k].payload.content_hash, k \in checkFail)
        THEN <<>> ELSE <<vd[k]>>)
       \o FilterNew(vd, st, checkFail, k + 1)

RECURSIVE FilterOld(_, _, _, _)
FilterOld(vd, st, checkFail, k) ==
  IF k > Len(vd) THEN <<>>
  ELSE (IF vector_exists(st, vd[k].payload.content_hash, k \in checkFail)
        THEN <<vd[k]>> ELSE <<>>)
       \o FilterOld(vd, st, checkFail, k + 1)

\* an upsert that adds the point beside the one stored under its id
UpsertPointBeside(st, item) == st \cup {item}

\* client.upsert of one point: a point with the same id is replaced
UpsertPoint(st, item) == {p \in st : p.id # item.id} \cup {item}

RECURSIVE UpsertBatch(_, _)
UpsertBatch(st, batch) ==
  IF batch = <<>> THEN st
  ELSE UpsertBatch(UpsertPoint(st, batch[1]), Tail(batch))

NumBatches(n) == (n + ModelBatchSize - 1) \div ModelBatchSize

\* upsert_vectors: batch b is written unless client.upsert raises for it; the
\* store rejects a batch holding a vector of another size than the collection
RECURSIVE upsert_vectors(_, _, _, _, _)
upsert_vectors(st, items, batchFail, dim, b) ==
  IF (b - 1) * ModelBatchSize >= Len(items) THEN st
  ELSE LET batch == SubSeq(items, (b - 1) * ModelBatchSize + 1,
                           Min2(b * ModelBatchSize, Len(items)))
           rejected == \E k \in 1..Len(batch) : batch[k].dim # dim
       IN upsert_vectors(IF b \in batchFail \/ rejected THEN st
                         ELSE UpsertBatch(st, batch),
                         items, batchFail, dim, b + 1)

\* the batches of upsert_vectors for which client.upsert raised
FailedBatches(items, batchFail, dim) ==
  {b \in 1..NumBatches(Len(items)) :
     b \in batchFail \/
     \E k \in ((b - 1) * ModelBatchSize + 1)..Min2(b * ModelBatchSize, Len(items)) :
        items[k].dim # dim}

IdsOf(st) == {p.id : p \in st}
TextsOf(st) == {p.payload.text : p \in st}

AddError(st, e) == [st EXCEPT !.errors = Append(@, e)]

Idle == pc \in {"idle", "done"}

\* a new IngestionService() in the same deployment
NewService ==
  /\ pc = "done"
  /\ runs < MaxRuns
  /\ stats' = InitStats
  /\ content_pages' = <<>>
  /\ failed_urls' = <<>>
  /\ client_closed' = FALSE
  /\ pc' = "idle"
  /\ UNCHANGED <<site, model_dim, store, coll_dim, crawled_pages, chunks, cwe,
                 report, runs, store_at_start, failed_stages, written, skipped,
                 check_failed, gave_up>>
  /\ UNCHANGED <<chunkVars, queryVars, relVars, harnessVars>>

\* the site's author changes a page between two runs
EditPage ==
  /\ pc = "done"
  /\ runs < MaxRuns
  /\ \E u \in URLs, c \in PagePool :
       /\ c # site[u]
       /\ site' = [site EXCEPT ![u] = c]
  /\ UNCHANGED <<model_dim, store, coll_dim, stats, content_pages, failed_urls,
                 client_closed, pc, crawled_pages, chunks, cwe, report, runs,
                 store_at_start, failed_stages, written, skipped,
                 check_failed, gave_up>>
  /\ UNCHANGED <<chunkVars, queryVars, relVars, harnessVars>>

\* run_ingestion_pipeline, entry
StartRun ==
  /\ Idle
  /\ runs < MaxRuns
  /\ runs' = runs + 1
  /\ pc' = "crawl"
  /\ crawled_pages' = <<>>
  /\ chunks' = <<>>
  /\ cwe' = <<>>
  /\ store_at_start' = store
  /\ failed_stages' = {}
  /\ written' = <<>>
  /\ skipped' = <<>>
  /\ check_failed' = {}
  /\ gave_up' = {}
  /\ UNCHANGED <<site, model_dim, store, coll_dim, stats, content_pages,
                 failed_urls, client_closed, report>>
  /\ UNCHANGED <<chunkVars, queryVars, relVars, harnessVars>>

\* Step 1: crawl_website / AsyncCrawler.crawl_site over the sitemap
Crawl ==
  /\ pc = "crawl"
  /\ \E outcome \in [URLs -> UrlOutcomes] :
       /\ client_closed => \A u \in URLs : outcome[u] = "fail"
       /\ gave_up' = {u \in URLs : outcome[u] # "ok"}
       /\ LET r == Fetch(1, outcome,
                         [pages |-> content_pages, failed |-> failed_urls])
          IN /\ content_pages' = r.pages
             /\ failed_urls' = r.failed
             /\ crawled_pages' = r.pages
             /\ stats' = [stats EXCEPT !.pages_crawled = Len(r.pages)]
             /\ pc' = IF r.pages = <<>> THEN "finish" ELSE "chunk"
  /\ UNCHANGED <<site, model_dim, store, coll_dim, client_closed, chunks, cwe,
                 report, runs, store_at_start, failed_stages, written, skipped,
                 check_failed>>
  /\ UNCHANGED <<chunkVars, queryVars, relVars, harnessVars>>

\* Step 2: process_content
ProcessContent ==
  /\ pc = "chunk"
  /\ \/ /\ chunks' = process_content(crawled_pages)
        /\ stats' = [stats EXCEPT !.chunks_processed = Len(chunks')]
        /\ pc' = IF chunks' = <<>> THEN "finish" ELSE "embed"
        /\ UNCHANGED failed_stages
     \/ /\ chunks' = <<>>
        /\ stats' = [AddError(stats, "chunking") EXCEPT !.chunks_processed = 0]
        /\ failed_stages' = failed_stages \cup {"chunking"}
        /\ pc' = "finish"
  /\ UNCHANGED <<site, model_dim, store, coll_dim, content_pages, failed_urls,
                 client_closed, crawled_pages, cwe, report, runs,
                 store_at_start, written, skipped, check_failed, gave_up>>
  /\ UNCHANGED <<chunkVars, queryVars, relVars, harnessVars>>

\* Step 3: generate_embeddings
GenerateEmbeddings ==
  /\ pc = "embed"
  /\ \/ /\ cwe' = WithEmbeddings(chunks, model_dim)
        /\ stats' = [stats EXCEPT !.embeddings_generated = Len(cwe')]
        /\ UNCHANGED failed_stages
     \/ /\ cwe' = <<>>
        /\ stats' = [AddError(stats, "embedding") EXCEPT !.embeddings_generated = 0]
        /\ failed_stages' = failed_stages \cup {"embedding"}
  /\ pc' = "init"
  /\ UNCHANGED <<site, model_dim, store, coll_dim, content_pages, failed_urls,
                 client_closed, crawled_pages, chunks, report, runs,
                 store_at_start, written, skipped, check_failed, gave_up>>
  /\ UNCHANGED <<chunkVars, queryVars, relVars, harnessVars>>

\* Step 4: initialize_collection
InitializeCollection ==
  /\ pc = "init"
  /\ LET embedding_dimensions == IF cwe # <<>> THEN cwe[1].dim ELSE 1024
     IN \/ /\ coll_dim' = IF coll_dim = 0 THEN embedding_dimensions ELSE coll_dim
           /\ pc' = "store"
           /\ UNCHANGED <<stats, failed_stages>>
        \/ /\ stats' = AddError(stats, "pipeline")
           /\ failed_stages' = failed_stages \cup {"collection"}
           /\ pc' = "finish"
           /\ UNCHANGED coll_dim
  /\ UNCHANGED <<site, model_dim, store, content_pages, failed_urls,
                 client_closed, crawled_pages, chunks, cwe, report, runs,
                 store_at_start, written, skipped, check_failed, gave_up>>
  /\ UNCHANGED <<chunkVars, queryVars, relVars, harnessVars>>

\* Step 5: store_vectors -> idempotent_upsert -> upsert_vectors
StoreVectors ==
  /\ pc = "store"
  /\ LET vd == [i \in 1..Len(cwe) |-> VectorItem(cwe[i], runs)]
     IN \E checkFail \in SUBSET (1..Len(vd)),
           batchFail \in SUBSET (1..NumBatches(Len(vd))) :
          LET new == FilterNew(vd, store, checkFail, 1)
          IN /\ batchFail \subseteq 1..NumBatches(Len(new))
             /\ store' = upsert_vectors(store, new, batchFail, coll_dim, 1)
             /\ written' = new
             /\ skipped' = FilterOld(vd, store, checkFail, 1)
             /\ check_failed' = checkFail
             /\ failed_stages' =
                  IF FailedBatches(new, batchFail, coll_dim) # {}
                  THEN failed_stages \cup {"write"} ELSE failed_stages
  /\ stats' = [stats EXCEPT !.vectors_stored = Len(cwe)]
  /\ pc' = "finish"
  /\ UNCHANGED <<site, model_dim, coll_dim, content_pages, failed_urls,
                 client_closed, crawled_pages, chunks, cwe, report, runs,
                 store_at_start, gave_up>>
  /\ UNCHANGED <<chunkVars, queryVars, relVars, harnessVars>>

\* the finally block and the return
Finish ==
  /\ pc = "finish"
  /\ report' = get_summary_report(stats)
  /\ client_closed' = TRUE
  /\ pc' = "done"
  /\ UNCHANGED <<site, model_dim, store, coll_dim, stats, content_pages,
                 failed_urls, crawled_pages, chunks, cwe, runs, store_at_start,
                 failed_stages, written, skipped, check_failed, gave_up>>
  /\ UNCHANGED <<chunkVars, queryVars, relVars, harnessVars>>

IngestInit ==
  /\ site \in [URLs -> PagePool]
  /\ model_dim \in ModelDims
  /\ store = {}
  /\ coll_dim = 0
  /\ stats = InitStats
  /\ content_pages = <<>>
  /\ failed_urls = <<>>
  /\ client_closed = FALSE
  /\ pc = "idle"
  /\ crawled_pages = <<>>
  /\ chunks = <<>>
  /\ cwe = <<>>
  /\ report = NoReport
  /\ runs = 0
  /\ store_at_start = {}
  /\ failed_stages = {}
  /\ written = <<>>
  /\ skipped = <<>>
  /\ check_failed = {}
  /\ gave_up = {}

\* ------------------------------------------------------------------------
\* Similarity (retrieval-validation/utils)
\* ------------------------------------------------------------------------
\* None, for an optional argument
NoneVal == -1

\* an embedding: its length and its first two components, all others zero;
\* the empty list has length 0
Vec(dim, d) == [dim |-> dim, x |-> d[1], y |-> d[2]]
EmptyVec == [dim |-> 0, x |-> 0, y |-> 0]
Dirs == {<<3, 4>>, <<5, 0>>, <<-4, 3>>, <<-3, -4>>}

RECURSIVE ISqrtIn(_, _, _)
ISqrtIn(n, lo, hi) ==
  IF lo >= hi THEN lo
  ELSE LET mid == (lo + hi + 1) \div 2
       IN IF mid * mid <= n THEN ISqrtIn(n, mid, hi) ELSE ISqrtIn(n, lo, mid - 1)

\* floor of the square root
ISqrt(n) == ISqrtIn(n, 0, 46340)

\* EmbeddingService.cosine_similarity, in thousandths
cosine_similarity(v1, v2) ==
  IF v1.dim = 0 \/ v2.dim = 0 \/ v1.dim # v2.dim THEN 0
  ELSE LET n1 == v1.x * v1.x + v1.y * v1.y
           n2 == v2.x * v2.x + v2.y * v2.y
       IN IF n1 = 0 \/ n2 = 0 THEN 0
          ELSE ((v1.x * v2.x + v1.y * v2.y) * 1000) \div ISqrt(n1 * n2)

\* token 0 is a blank, token 9 an English stop word
StopWords == {9}

\* the words of a text
Words(t) == {t[i] : i \in 1..Len(t)} \ {0}

\* occurrences of word w in a text
Tf(w, t) == Cardinality({i \in 1..Len(t) : t[i] = w})

RECURSIVE SumOver(_, _, _)
SumOver(S, t1, t2) ==
  IF S = {} THEN 0
  ELSE LET w == CHOOSE v \in S : TRUE
       IN Tf(w, t1) * Tf(w, t2) + SumOver(S \ {w}, t1, t2)

\* calculate_simple_overlap_similarity: Jaccard overlap of the word sets
calculate_simple_overlap_similarity(t1, t2) ==
  IF Strip(t1) = <<>> \/ Strip(t2) = <<>> THEN 0
  ELSE LET w1 == Words(t1)
           w2 == Words(t2)
       IN IF w1 = {} /\ w2 = {} THEN 1000
          ELSE IF w1 = {} \/ w2 = {} THEN 0
          ELSE (Cardinality(w1 \cap w2) * 1000) \div Cardinality(w1 \cup w2)

\* TfidfVectorizer(stop_words='english') over the two texts
Vocabulary(t1, t2) == (Words(t1) \cup Words(t2)) \ StopWords

\* squared norm of a text's tf-idf row, times 1000: idf is 1 for a word of
\* both texts and ln(3/2)+1 for a word of one (its square is 1.975)
TfidfNorm2(t, other) ==
  LET mine == Words(t) \ StopWords
  IN 1000 * SumOver(mine \cap Words(other), t, t)
     + 1975 * SumOver(mine \ Words(other), t, t)

\* cosine of the two tf-idf rows, in thousandths
TfidfCosine(t1, t2) ==
  LET a1 == TfidfNorm2(t1, t2)
      a2 == TfidfNorm2(t2, t1)
      dot == SumOver((Words(t1) \cap Words(t2)) \ StopWords, t1, t2)
  IN IF a1 = 0 \/ a2 = 0 \/ dot = 0 THEN 0
     ELSE Min2(1000, (dot * 1000000) \div ISqrt(a1 * a2))

\* calculate_text_similarity raises: fit_transform finds an empty vocabulary
TextSimilarityRaises(t1, t2, sk) ==
  /\ sk
  /\ Strip(t1) # <<>> /\ Strip(t2) # <<>>
  /\ Strip(t1) # Strip(t2)
  /\ Vocabulary(t1, t2) = {}

\* calculate_text_similarity, in thousandths
calculate_text_similarity(t1, t2, sk) ==
  IF Strip(t1) = <<>> \/ Strip(t2) = <<>> THEN 0
  ELSE IF Strip(t1) = Strip(t2) THEN 1000
  ELSE IF sk THEN TfidfCosine(t1, t2)
  ELSE calculate_simple_overlap_similarity(t1, t2)

\* the hard-wired threshold of is_relevant, 0.5
DefaultRelevance == 500
\* settings.RELEVANCE_THRESHOLD, 0.7 unless configured
RELEVANCE_THRESHOLD == 700

\* calculate_semantic_relevance; combined_relevance is kept doubled, in
\* two-thousandths, so that the division by 2.0 loses nothing
calculate_semantic_relevance(query, result_text, query_embedding, result_embedding, sk) ==
  LET embedding_similarity ==
        IF query_embedding.dim # 0 /\ result_embedding.dim # 0
           /\ query_embedding.dim = result_embedding.dim
        THEN cosine_similarity(query_embedding, result_embedding)
        ELSE 0
      text_similarity == calculate_text_similarity(query, result_text, sk)
      combined2 == embedding_similarity + text_similarity
  IN [embedding_similarity |-> embedding_similarity,
      text_similarity |-> text_similarity,
      combined_relevance |-> combined2,
      is_relevant |-> (combined2 >= 2 * DefaultRelevance)]

RECURSIVE InsertDesc(_, _, _)
InsertDesc(sorted, r, k) ==
  IF k > Len(sorted) THEN Append(sorted, r)
  ELSE IF sorted[k].combined_score < r.combined_score
       THEN SubSeq(sorted, 1, k - 1) \o <<r>> \o SubSeq(sorted, k, Len(sorted))
       ELSE InsertDesc(sorted, r, k + 1)

\* list.sort(key=combined_score, reverse=True): descending and stable
RECURSIVE SortByCombinedScore(_)
SortByCombinedScore(rs) ==
  IF rs = <<>> THEN <<>>
  ELSE InsertDesc(SortByCombinedScore(SubSeq(rs, 1, Len(rs) - 1)), rs[Len(rs)], 1)

\* the key the ranking sorts on; combined_score is kept times four
CombinedScore(score, relevance) == 2 * score + relevance.combined_relevance

\* rank_results_by_relevance: no result carries an 'embedding'
rank_results_by_relevance(query, results, sk) ==
  SortByCombinedScore(
    [i \in 1..Len(results) |->
       LET relevance_data ==
             calculate_semantic_relevance(query, results[i].text, EmptyVec,
                                          EmptyVec, sk)
       IN [id |-> results[i].id, score |-> results[i].score,
           text |-> results[i].text, url |-> results[i].url,
           title |-> results[i].title,
           position |-> results[i].position,
           embedding_similarity |-> relevance_data.embedding_similarity,
           text_similarity |-> relevance_data.text_similarity,
           combined_relevance |-> relevance_data.combined_relevance,
           is_relevant |-> relevance_data.is_relevant,
           combined_score |-> CombinedScore(results[i].score, relevance_data)]])

NoRelevance == [embedding_similarity |-> 0, text_similarity |-> 0,
                combined_relevance |-> 0, is_relevant |-> FALSE]

QueryIdle ==
  /\ provider = <<>>
  /\ sklearn = FALSE
  /\ qin = [op |-> "none"]
  /\ qout = [kind |-> "none"]
  /\ qpc = "off"
  /\ embed_calls = 0
  /\ store_calls = 0

\* no call of EmbeddingService.generate_embeddings, no concurrent ingester
NoEmbed == [pc |-> "off"]
NoIngesters == <<>>
HarnessIdle == emb = NoEmbed /\ ing = NoIngesters

RelIdle ==
  /\ rin = [query |-> <<>>]
  /\ rout = NoRelevance
  /\ rpc = "off"

\* the locals of chunk_text before its loop: index of the next sentence,
\* chunks, current_chunk, current_token_count
LoopStart == [i |-> 1, chunks |-> <<>>, cur |-> <<>>, cnt |-> 0]
NoLoop == LoopStart

ChunkIdle ==
  /\ cin = [raw |-> RawInput(FALSE, <<>>, FALSE, FALSE), lens |-> <<>>,
            mn |-> 0, mx |-> 0, ov |-> 0]
  /\ cout = <<>>
  /\ cpc = "off"
  /\ cst = NoLoop
  /\ sentences = <<>>

Init == IngestInit /\ ChunkIdle /\ QueryIdle /\ RelIdle /\ HarnessIdle

Next ==
  \/ NewService
  \/ EditPage
  \/ StartRun
  \/ Crawl
  \/ ProcessContent
  \/ GenerateEmbeddings
  \/ InitializeCollection
  \/ StoreVectors
  \/ Finish

Spec == Init /\ [][Next]_vars

\* ------------------------------------------------------------------------
\* Segmenter harness: chunk_text applied to a text and a setting
\* ------------------------------------------------------------------------
MaxSettingMin == 3
MaxSettingMax == 4
MaxSettingOverlap == 2

\* texts of up to MaxSentences sentences, and settings with
\* overlap < min_tokens <= max_tokens as the configured defaults have
ChunkInputs ==
  {[raw |-> RawInput(ld, l, tm, tr), lens |-> l, mn |-> a, mx |-> b, ov |-> o] :
     l \in SeqsUpTo(1..MaxSentenceTokens, MaxSentences),
     ld \in BOOLEAN, tm \in BOOLEAN, tr \in BOOLEAN,
     a \in 1..MaxSettingMin, b \in 1..MaxSettingMax, o \in 0..MaxSettingOverlap}

IngestOff ==
  /\ site = [u \in URLs |-> <<1>>]
  /\ model_dim = 768
  /\ store = {}
  /\ coll_dim = 0
  /\ stats = InitStats
  /\ content_pages = <<>>
  /\ failed_urls = <<>>
  /\ client_closed = FALSE
  /\ pc = "off"
  /\ crawled_pages = <<>>
  /\ chunks = <<>>
  /\ cwe = <<>>
  /\ report = NoReport
  /\ runs = 0
  /\ store_at_start = {}
  /\ failed_stages = {}
  /\ written = <<>>
  /\ skipped = <<>>
  /\ check_failed = {}
  /\ gave_up = {}

ChunkInit ==
  /\ IngestOff
  /\ QueryIdle
  /\ RelIdle
  /\ HarnessIdle
  /\ cin \in {c \in ChunkInputs : c.ov < c.mn /\ c.mn <= c.mx}
  /\ cout = <<>>
  /\ cpc = "ready"
  /\ cst = NoLoop
  /\ sentences = <<>>

DoChunk ==
  /\ cpc = "ready"
  /\ cout' = chunk_text_raw(cin.raw, cin.mn, cin.mx, cin.ov)
  /\ cpc' = "chunked"
  /\ UNCHANGED <<cin, cst, sentences>>
  /\ UNCHANGED <<ingestVars, queryVars, relVars, harnessVars>>

ChunkNext == DoChunk

SpecChunk == ChunkInit /\ [][ChunkNext]_vars

\* ------------------------------------------------------------------------
\* Retrieval (retrieval-validation/src/retrieval_service.py,
\*            rag-chatbot/utils/qdrant_retriever.py with QDRANT_URL and
\*            COHERE_API_KEY set)
\* ------------------------------------------------------------------------
\* settings.TOP_K and settings.COSINE_THRESHOLD of retrieval-validation
TOP_K == 5
COSINE_THRESHOLD == 300
\* settings.RETRIEVAL_TOP_K and settings.RETRIEVAL_THRESHOLD of rag-chatbot
RETRIEVAL_TOP_K == 5
RETRIEVAL_THRESHOLD == 300
\* dimensions requested by embed_query, and forced by retrieve_chunks
QueryDimensions == 768

\* direction of the provider's embedding of a query, and of the sha256
\* placeholder embedding of _get_placeholder_embedding_768
QueryDir == <<3, 4>>
PlaceholderDir == <<5, 0>>

\* x or default
OrDefault(x, dflt) == IF x = NoneVal \/ x = 0 THEN dflt ELSE x

\* the vector stored with a point
PointVec(p) == Vec(p.dim, provider[p.payload.text])

\* client.search raises: no such collection, or a query vector of another
\* size than the collection's
SearchRejected(qvec) == coll_dim = 0 \/ qvec.dim # coll_dim

\* the points client.search may return, by cosine score and score_threshold
Hits(qvec, threshold) ==
  {p \in store : threshold = NoneVal
                 \/ cosine_similarity(qvec, PointVec(p)) >= threshold}

\* the orders client.search may return them in: by descending score
Orderings(S, qvec) ==
  {s \in [1..Cardinality(S) -> S] :
     /\ \A i, j \in 1..Cardinality(S) : i # j => s[i] # s[j]
     /\ \A i, j \in 1..Cardinality(S) :
          i < j => cosine_similarity(qvec, PointVec(s[i]))
                   >= cosine_similarity(qvec, PointVec(s[j]))}

\* payload.get(key, default)
PayloadGet(payload, key, default) ==
  IF key \in DOMAIN payload THEN payload[key] ELSE default

\* the loop that formats the hits, after limit=k; "" stands for the empty
\* string a missing url or title is replaced with
FormatResults(s, qvec, k) ==
  [i \in 1..Min2(k, Len(s)) |->
     [id |-> s[i].id, score |-> cosine_similarity(qvec, PointVec(s[i])),
      text |-> PayloadGet(s[i].payload, "text", <<>>),
      url |-> PayloadGet(s[i].payload, "url", ""),
      title |-> PayloadGet(s[i].payload, "title", ""),
      position |-> PayloadGet(s[i].payload, "position", 0)]]

Outcome(list, fault, embeds, searches, qdim, placeholder) ==
  [list |-> list, fault |-> fault, embeds |-> embeds, searches |-> searches,
   qdim |-> qdim, placeholder |-> placeholder]

\* what client.search and the code after it can come to for a query vector
SearchStep(qvec, k, threshold, embeds, placeholder) ==
  {Outcome(<<>>, "store", embeds, 1, qvec.dim, placeholder)}
  \cup (IF SearchRejected(qvec)
        THEN {Outcome(<<>>, IF coll_dim = 0 THEN "store" ELSE "dimension",
                      embeds, 1, qvec.dim, placeholder)}
        ELSE {Outcome(FormatResults(s, qvec, k), "none", embeds, 1, qvec.dim,
                      placeholder) :
                s \in Orderings(Hits(qvec, threshold), qvec)})

\* RetrievalService.search: every way the call can go
search(query, top_k) ==
  IF Strip(query) = <<>>
  THEN {Outcome(<<>>, "none", 0, 0, 0, FALSE)}
  ELSE LET k == OrDefault(top_k, TOP_K)
       IN {Outcome(<<>>, "embed", 1, 0, 0, FALSE)}
          \cup SearchStep(Vec(QueryDimensions, QueryDir), k, COSINE_THRESHOLD,
                          1, FALSE)

\* retrieve_chunks without its blank-query return
retrieve_chunks_unguarded(query, top_k, threshold) ==
  LET k == OrDefault(top_k, RETRIEVAL_TOP_K)
      sim_threshold == OrDefault(threshold, RETRIEVAL_THRESHOLD)
  IN SearchStep(Vec(QueryDimensions, QueryDir), k, sim_threshold, 1, FALSE)
     \cup {[o EXCEPT !.fault = IF @ = "none" THEN "embed" ELSE @] :
             o \in SearchStep(Vec(QueryDimensions, PlaceholderDir), k,
                              sim_threshold, 1, TRUE)}

\* QdrantRetriever.retrieve_chunks: every way the call can go
retrieve_chunks(query, top_k, threshold) ==
  IF Strip(query) = <<>>
  THEN {Outcome(<<>>, "none", 0, 0, 0, FALSE)}
  ELSE LET k == OrDefault(top_k, RETRIEVAL_TOP_K)
           sim_threshold == OrDefault(threshold, RETRIEVAL_THRESHOLD)
       IN SearchStep(Vec(QueryDimensions, QueryDir), k, sim_threshold, 1, FALSE)
          \cup {[o EXCEPT !.fault = IF @ = "none" THEN "embed" ELSE @] :
                  o \in SearchStep(Vec(QueryDimensions, PlaceholderDir), k,
                                   sim_threshold, 1, TRUE)}

\* QdrantRetriever.retrieve_chunks_with_selected_text
retrieve_chunks_with_selected_text(query, selected_text, top_k, threshold) ==
  IF Strip(query) = <<>> /\ Strip(selected_text) = <<>>
  THEN {Outcome(<<>>, "none", 0, 0, 0, FALSE)}
  ELSE retrieve_chunks(Strip(query \o <<0>> \o selected_text), top_k, threshold)

\* search_with_validation raises when scoring a result raises
ScoringRaises(query, results) ==
  \E i \in 1..Len(results) : TextSimilarityRaises(query, results[i].text, sklearn)

\* ValidationService.validate_semantic_relevance: its relevance details
relevance_details(query, results) ==
  [i \in 1..Len(results) |->
     LET relevance_data ==
           calculate_semantic_relevance(query, results[i].text, EmptyVec,
                                        EmptyVec, sklearn)
     IN [result_id |-> results[i].id,
         combined_relevance |-> relevance_data.combined_relevance,
         is_relevant |-> (relevance_data.combined_relevance
                            >= 2 * RELEVANCE_THRESHOLD)]]

QueryPool == {<<>>, <<0>>, <<1, 2>>, <<2>>, <<2, 3>>, <<9>>}
SelectedPool == {<<>>, <<0>>, <<2>>}
TopKPool == {NoneVal, 1}
ThresholdPool == {NoneVal, 0}

NoCall == [op |-> "none", query |-> <<>>, selected_text |-> <<>>,
           top_k |-> NoneVal, threshold |-> NoneVal]
NoResult == [kind |-> "none", results |-> <<>>, details |-> <<>>,
             relevant_count |-> 0, precision_relevant |-> 0, fault |-> "none", qdim |-> 0,
             placeholder |-> FALSE]

Call(op, query, selected_text, top_k, threshold) ==
  [op |-> op, query |-> query, selected_text |-> selected_text,
   top_k |-> top_k, threshold |-> threshold]

Returned(o) ==
  [kind |-> "list", results |-> o.list, details |-> <<>>, relevant_count |-> 0,
   precision_relevant |-> 0, fault |-> o.fault, qdim |-> o.qdim, placeholder |-> o.placeholder]

\* a caller runs RetrievalService.search
Search ==
  /\ qpc = "ready"
  /\ \E query \in QueryPool, top_k \in TopKPool :
       \E o \in search(query, top_k) :
         /\ qin' = Call("search", query, <<>>, top_k, NoneVal)
         /\ qout' = Returned(o)
         /\ embed_calls' = o.embeds
         /\ store_calls' = o.searches
  /\ qpc' = "done"
  /\ UNCHANGED <<provider, sklearn>>
  /\ UNCHANGED <<ingestVars, chunkVars, relVars, harnessVars>>

\* a caller runs QdrantRetriever.retrieve_chunks
RetrieveChunks ==
  /\ qpc = "ready"
  /\ \E query \in QueryPool, top_k \in TopKPool, threshold \in ThresholdPool :
       \E o \in retrieve_chunks(query, top_k, threshold) :
         /\ qin' = Call("retrieve_chunks", query, <<>>, top_k, threshold)
         /\ qout' = Returned(o)
         /\ embed_calls' = o.embeds
         /\ store_calls' = o.searches
  /\ qpc' = "done"
  /\ UNCHANGED <<provider, sklearn>>
  /\ UNCHANGED <<ingestVars, chunkVars, relVars, harnessVars>>

\* a caller runs QdrantRetriever.retrieve_chunks_with_selected_text
RetrieveChunksWithSelectedText ==
  /\ qpc = "ready"
  /\ \E query \in QueryPool, selected_text \in SelectedPool :
       \E o \in retrieve_chunks_with_selected_text(query, selected_text,
                                                   NoneVal, NoneVal) :
         /\ qin' = Call("retrieve_chunks_with_selected_text", query,
                        selected_text, NoneVal, NoneVal)
         /\ qout' = Returned(o)
         /\ embed_calls' = o.embeds
         /\ store_calls' = o.searches
  /\ qpc' = "done"
  /\ UNCHANGED <<provider, sklearn>>
  /\ UNCHANGED <<ingestVars, chunkVars, relVars, harnessVars>>

\* a caller runs RetrievalService.search_with_validation
SearchWithValidation ==
  /\ qpc = "ready"
  /\ \E query \in QueryPool, top_k \in TopKPool :
       \E o \in search(query, top_k) :
         /\ qin' = Call("search_with_validation", query, <<>>, top_k, NoneVal)
         /\ qout' = IF ScoringRaises(query, o.list)
                    THEN [Returned(o) EXCEPT !.kind = "raise", !.results = <<>>]
                    ELSE [Returned(o) EXCEPT
                            !.results = rank_results_by_relevance(query, o.list,
                                                                  sklearn)]
         /\ embed_calls' = o.embeds
         /\ store_calls' = o.searches
  /\ qpc' = "done"
  /\ UNCHANGED <<provider, sklearn>>
  /\ UNCHANGED <<ingestVars, chunkVars, relVars, harnessVars>>

\* run_comprehensive_validation over one test query: batch_search runs
\* search_with_validation, validate_semantic_relevance counts the relevant
\* results, and the precision loop counts the results flagged is_relevant
ValidateQuery ==
  /\ qpc = "ready"
  /\ \E query \in QueryPool :
       \E o \in search(query, NoneVal) :
         /\ qin' = Call("validate", query, <<>>, NoneVal, NoneVal)
         /\ qout' =
              IF ScoringRaises(query, o.list)
              THEN [Returned(o) EXCEPT !.kind = "raise", !.results = <<>>]
              ELSE LET ranked == rank_results_by_relevance(query, o.list, sklearn)
                       details == relevance_details(query, ranked)
                   IN [Returned(o) EXCEPT
                         !.kind = "report",
                         !.results = ranked,
                         !.details = details,
                         !.relevant_count =
                            Cardinality({i \in 1..Len(details) :
                                           details[i].is_relevant}),
                         !.precision_relevant =
                            Cardinality({i \in 1..Len(ranked) :
                                           ranked[i].is_relevant})]
         /\ embed_calls' = o.embeds
         /\ store_calls' = o.searches
  /\ qpc' = "done"
  /\ UNCHANGED <<provider, sklearn>>
  /\ UNCHANGED <<ingestVars, chunkVars, relVars, harnessVars>>

\* the points an ingestion of a three-chunk page leaves, by collection size
PoolPage == <<[url |-> "u1", title |-> "u1", content |-> <<2, 2>>,
              content_hash |-> 0]>>
PointPool(dim) ==
  LET cs == WithEmbeddings(process_content(PoolPage), dim)
  IN {VectorItem(cs[i], 1) : i \in 1..Len(cs)}
PoolTexts == {p.payload.text : p \in PointPool(QueryDimensions)}

QueryInit ==
  /\ coll_dim \in {0} \cup ModelDims
  /\ store \in (IF coll_dim = 0 THEN {{}} ELSE SUBSET PointPool(coll_dim))
  /\ provider \in [PoolTexts -> Dirs]
  /\ \A t \in PoolTexts : t \notin TextsOf(store) => provider[t] = QueryDir
  /\ sklearn \in BOOLEAN
  /\ qin = NoCall
  /\ qout = NoResult
  /\ qpc = "ready"
  /\ embed_calls = 0
  /\ store_calls = 0
  /\ site = [u \in URLs |-> <<1>>]
  /\ model_dim = 768
  /\ stats = InitStats
  /\ content_pages = <<>>
  /\ failed_urls = <<>>
  /\ client_closed = FALSE
  /\ pc = "off"
  /\ crawled_pages = <<>>
  /\ chunks = <<>>
  /\ cwe = <<>>
  /\ report = NoReport
  /\ runs = 0
  /\ store_at_start = {}
  /\ failed_stages = {}
  /\ written = <<>>
  /\ skipped = <<>>
  /\ check_failed = {}
  /\ gave_up = {}
  /\ ChunkIdle
  /\ RelIdle
  /\ HarnessIdle

QueryNext ==
  \/ Search
  \/ RetrieveChunks
  \/ RetrieveChunksWithSelectedText
  \/ SearchWithValidation
  \/ ValidateQuery

SpecQuery == QueryInit /\ [][QueryNext]_vars

\* ------------------------------------------------------------------------
\* Relevance harness: calculate_semantic_relevance applied to a pair
\* ------------------------------------------------------------------------
EmbeddingPool ==
  {EmptyVec} \cup {Vec(d, dir) : d \in ModelDims, dir \in Dirs}

RelInit ==
  /\ IngestOff
  /\ ChunkIdle
  /\ QueryIdle
  /\ rin \in [query : QueryPool, text : PoolTexts,
              query_embedding : EmbeddingPool, result_embedding : EmbeddingPool,
              sklearn : BOOLEAN]
  /\ rout = NoRelevance
  /\ rpc = "ready"
  /\ HarnessIdle

ScorePair ==
  /\ rpc = "ready"
  /\ ~TextSimilarityRaises(rin.query, rin.text, rin.sklearn)
  /\ rout' = calculate_semantic_relevance(rin.query, rin.text,
                                          rin.query_embedding,
                                          rin.result_embedding, rin.sklearn)
  /\ rpc' = "scored"
  /\ UNCHANGED rin
  /\ UNCHANGED <<ingestVars, chunkVars, queryVars, harnessVars>>

RelNext == ScorePair

SpecRelevance == RelInit /\ [][RelNext]_vars

\* ------------------------------------------------------------------------
\* Validation reports (retrieval-validation/src/validation_service.py,
\* RetrievalService.validate_retrieval_accuracy).  Averages, fractions and
\* percentages of a report are kept in ten-thousandths: 0.8 is 8000 and
\* 80.0 is 800000.
\* ------------------------------------------------------------------------
\* a / b rounded to the nearest integer
RoundDiv(a, b) == (2 * a + b) \div (2 * b)

RECURSIVE SumField(_, _)
SumField(rs, f) == IF rs = <<>> THEN 0 ELSE rs[1][f] + SumField(Tail(rs), f)

\* ValidationService.validate_semantic_relevance
validate_semantic_relevance(query, results) ==
  IF results = <<>>
  THEN [relevant_count |-> 0, total_results |-> 0, avg_relevance_score |-> 0]
  ELSE LET details == relevance_details(query, results)
       IN [relevant_count |->
             Cardinality({i \in 1..Len(details) : details[i].is_relevant}),
           total_results |-> Len(results),
           \* round(total_relevance_score / len(results), 4)
           avg_relevance_score |->
             RoundDiv(5 * SumField(details, "combined_relevance"), Len(results))]

\* the issues validate_metadata_accuracy finds in one result
result_issues(result) ==
  (IF result.url = "" THEN {"Missing URL"} ELSE {})
  \cup (IF result.title = "" THEN {"Missing title"} ELSE {})
  \cup (IF "position" \notin DOMAIN result THEN {"Missing position"} ELSE {})

\* ValidationService.validate_metadata_accuracy
validate_metadata_accuracy(results) ==
  IF results = <<>>
  THEN [total_results |-> 0, valid_metadata_count |-> 0,
        metadata_accuracy_percentage |-> 0, issues |-> {}]
  ELSE LET valid == {i \in 1..Len(results) : result_issues(results[i]) = {}}
       IN [total_results |-> Len(results),
           valid_metadata_count |-> Cardinality(valid),
           \* round(valid / len(results) * 100, 2)
           metadata_accuracy_percentage |->
             100 * RoundDiv(10000 * Cardinality(valid), Len(results)),
           issues |-> {results[i].id : i \in (1..Len(results)) \ valid}]

\* results[:k]
FirstK(rs, k) == SubSeq(rs, 1, Min2(k, Len(rs)))

\* the precision loop of run_comprehensive_validation for one k
precision_at(searches, k) ==
  LET relevant_at_k ==
        SumSeq([q \in 1..Len(searches) |->
                  Cardinality({i \in 1..Len(FirstK(searches[q].results, k)) :
                                 searches[q].results[i].is_relevant})])
      total_at_k ==
        SumSeq([q \in 1..Len(searches) |-> Len(FirstK(searches[q].results, k))])
  IN IF total_at_k > 0
     THEN 100 * RoundDiv(10000 * relevant_at_k, total_at_k)   \* round(p * 100, 2)
     ELSE 0

\* the report of run_comprehensive_validation over the results of batch_search
comprehensive_report(searches) ==
  LET relevance_results ==
        [q \in 1..Len(searches) |->
           validate_semantic_relevance(searches[q].query, searches[q].results)]
      total_results == SumField(relevance_results, "total_results")
      all_results == Flatten([q \in 1..Len(searches) |-> searches[q].results])
  IN [kind |-> "validation_report",
      searches |-> searches,
      avg_relevance_score |->
        IF relevance_results # <<>>
        THEN RoundDiv(SumField(relevance_results, "avg_relevance_score"),
                      Len(relevance_results))
        ELSE 0,
      total_relevant_results |-> SumField(relevance_results, "relevant_count"),
      total_results |-> total_results,
      precision_metrics |-> [k \in {1, 3, 5} |-> precision_at(searches, k)],
      metadata_validation |-> validate_metadata_accuracy(all_results)]

\* batch_search: every way the searches of the queries can go
RECURSIVE BatchOutcomes(_, _)
BatchOutcomes(queries, top_k) ==
  IF queries = <<>> THEN {<<>>}
  ELSE {<<o>> \o rest : o \in search(queries[1], top_k),
                        rest \in BatchOutcomes(Tail(queries), top_k)}

\* a validation run has at most MaxBatch queries
MaxBatch == 2
BatchQueries == {<<1, 2>>, <<2>>, <<9>>}
QueryBatches == {qs \in SeqsUpTo(BatchQueries, MaxBatch) : qs # <<>>}

\* a caller runs ValidationService.run_comprehensive_validation(test_queries)
RunComprehensiveValidation ==
  /\ qpc = "ready"
  /\ \E queries \in QueryBatches :
       \E outs \in BatchOutcomes(queries, NoneVal) :
         /\ qin' = [op |-> "run_comprehensive_validation", queries |-> queries]
         /\ qout' =
              IF \E q \in 1..Len(queries) : ScoringRaises(queries[q], outs[q].list)
              THEN [kind |-> "raise"]
              ELSE comprehensive_report(
                     [q \in 1..Len(queries) |->
                        [query |-> queries[q],
                         results |-> rank_results_by_relevance(
                                       queries[q], outs[q].list, sklearn)]])
         /\ embed_calls' = SumField(outs, "embeds")
         /\ store_calls' = SumField(outs, "searches")
  /\ qpc' = "done"
  /\ UNCHANGED <<provider, sklearn>>
  /\ UNCHANGED <<ingestVars, chunkVars, relVars, harnessVars>>

\* a is a contiguous part of b: a in b, for strings
IsSubstring(a, b) ==
  \E i \in 1..(Len(b) - Len(a) + 1) : SubSeq(b, i, i + Len(a) - 1) = a

\* the test of the loop of validate_retrieval_accuracy for one result
MatchesExpected(pair, result) ==
  \/ pair.expected_result_id # NoneVal /\ result.id = pair.expected_result_id
  \/ pair.expected_text # <<>> /\ IsSubstring(pair.expected_text, result.text)

\* the rank counted from 0
rank_of_expected_from_zero(pair, search_results) ==
  LET M == {i \in 1..Len(search_results) : MatchesExpected(pair, search_results[i])}
  IN IF M = {} THEN -1 ELSE (CHOOSE i \in M : \A j \in M : i <= j) - 1

\* the loop of validate_retrieval_accuracy: the 1-indexed position of the
\* first matching result, -1 when there is none
rank_of_expected(pair, search_results) ==
  LET M == {i \in 1..Len(search_results) : MatchesExpected(pair, search_results[i])}
  IN IF M = {} THEN -1 ELSE CHOOSE i \in M : \A j \in M : i <= j

\* RetrievalService.validate_retrieval_accuracy over the results of its searches
accuracy_report(pairs, outs) ==
  LET detailed_results ==
        [q \in 1..Len(pairs) |->
           [found_expected |->
              \E i \in 1..Len(outs[q].list) : MatchesExpected(pairs[q], outs[q].list[i]),
            rank_of_expected |-> rank_of_expected(pairs[q], outs[q].list),
            total_results |-> Len(outs[q].list),
            search_results |-> outs[q].list]]
      correct_retrievals ==
        Cardinality({q \in 1..Len(pairs) : detailed_results[q].found_expected})
  IN [kind |-> "accuracy_report",
      accuracy |-> IF Len(pairs) > 0
                   THEN (10000 * correct_retrievals) \div Len(pairs) ELSE 0,
      total_queries |-> Len(pairs),
      correct_retrievals |-> correct_retrievals,
      detailed_results |-> detailed_results]

Pair(query, expected_result_id, expected_text) ==
  [query |-> query, expected_result_id |-> expected_result_id,
   expected_text |-> expected_text]

PairPool ==
  {Pair(<<2>>, md5(<<2>>), <<>>), Pair(<<1, 2>>, NoneVal, <<3, 4>>),
   Pair(<<2, 3>>, md5(<<1, 2>>), <<3, 4>>), Pair(<<2>>, NoneVal, <<>>),
   Pair(<<0>>, md5(<<2>>), <<>>)}
PairBatches == SeqsUpTo(PairPool, MaxBatch)

\* a caller runs RetrievalService.validate_retrieval_accuracy(query_result_pairs)
ValidateRetrievalAccuracy ==
  /\ qpc = "ready"
  /\ \E pairs \in PairBatches :
       \E outs \in BatchOutcomes([q \in 1..Len(pairs) |-> pairs[q].query], TOP_K) :
         /\ qin' = [op |-> "validate_retrieval_accuracy", pairs |-> pairs]
         /\ qout' = accuracy_report(pairs, outs)
         /\ embed_calls' = SumField(outs, "embeds")
         /\ store_calls' = SumField(outs, "searches")
  /\ qpc' = "done"
  /\ UNCHANGED <<provider, sklearn>>
  /\ UNCHANGED <<ingestVars, chunkVars, relVars, harnessVars>>

\* a payload without one of its keys
Without(payload, key) == [k \in DOMAIN payload \ {key} |-> payload[k]]

\* a stored chunk made of stop words only
StopWordPoint ==
  VectorItem([url |-> "u2", title |-> "u2", text |-> <<9, 9>>, position |-> 0,
              token_count |-> 2, dim |-> QueryDimensions,
              content_hash |-> md5(<<9, 9>>)], 1)

\* collections whose first point may have been written without its url,
\* title or position, and collections that hold the stop-word chunk
MetaKeys == {"none", "url", "title", "position"}
ValidationStores ==
  {{IF p.payload.position = 0 /\ key # "none"
    THEN [p EXCEPT !.payload = Without(@, key)] ELSE p : p \in S} :
     S \in SUBSET PointPool(QueryDimensions), key \in MetaKeys}
  \cup {S \cup {StopWordPoint} : S \in SUBSET PointPool(QueryDimensions)}

ValidationTexts == PoolTexts \cup {StopWordPoint.payload.text}

ValidationDirs == {QueryDir, PlaceholderDir}

ValidationInit ==
  /\ coll_dim = QueryDimensions
  /\ store \in ValidationStores
  /\ provider \in [ValidationTexts -> ValidationDirs]
  /\ \A t \in ValidationTexts : t \notin TextsOf(store) => provider[t] = QueryDir
  /\ provider[StopWordPoint.payload.text] = QueryDir
  /\ sklearn \in BOOLEAN
  /\ qin = NoCall
  /\ qout = NoResult
  /\ qpc = "ready"
  /\ embed_calls = 0
  /\ store_calls = 0
  /\ site = [u \in URLs |-> <<1>>]
  /\ model_dim = 768
  /\ stats = InitStats
  /\ content_pages = <<>>
  /\ failed_urls = <<>>
  /\ client_closed = FALSE
  /\ pc = "off"
  /\ crawled_pages = <<>>
  /\ chunks = <<>>
  /\ cwe = <<>>
  /\ report = NoReport
  /\ runs = 0
  /\ store_at_start = {}
  /\ failed_stages = {}
  /\ written = <<>>
  /\ skipped = <<>>
  /\ check_failed = {}
  /\ gave_up = {}
  /\ ChunkIdle
  /\ RelIdle
  /\ HarnessIdle

ValidationNext ==
  \/ RunComprehensiveValidation
  \/ ValidateRetrievalAccuracy

SpecValidation == ValidationInit /\ [][ValidationNext]_vars

\* ------------------------------------------------------------------------
\* Scenario A: chunk_text with the configured defaults on a long document
\* ------------------------------------------------------------------------
\* settings.py CHUNK_SIZE_MIN / CHUNK_SIZE_MAX / CHUNK_OVERLAP
CHUNK_SIZE_MIN == 500
CHUNK_SIZE_MAX == 1200
CHUNK_OVERLAP == 100

\* the document has ScenarioTokens tokens, in sentences of one length between
\* MinShortSentence and MaxShortSentence tokens (the last one may be shorter)
ScenarioTokens == 3000
MinShortSentence == 6
MaxShortSentence == 20

ScenarioLens(n) ==
  [j \in 1..(ScenarioTokens \div n) |-> n]
    \o (IF ScenarioTokens % n = 0 THEN <<>> ELSE <<ScenarioTokens % n>>)

ScenarioInputs ==
  {[raw |-> RawInput(ld, ScenarioLens(n), tm, tr), lens |-> ScenarioLens(n),
    mn |-> CHUNK_SIZE_MIN, mx |-> CHUNK_SIZE_MAX, ov |-> CHUNK_OVERLAP] :
     n \in MinShortSentence..MaxShortSentence,
     ld \in BOOLEAN, tm \in BOOLEAN, tr \in BOOLEAN}

ScenarioInit ==
  /\ IngestOff
  /\ QueryIdle
  /\ RelIdle
  /\ HarnessIdle
  /\ cin \in ScenarioInputs
  /\ cout = <<>>
  /\ cpc = "ready"
  /\ cst = NoLoop
  /\ sentences = <<>>

\* chunk_text up to its loop: the empty list for blank text, the text as one
\* chunk for one short sentence, the loop otherwise
EnterChunkText ==
  /\ cpc = "ready"
  /\ LET S == SplitRaw(cin.raw)
         early == Strip(RawText(cin.raw)) = <<>>
                    \/ (Len(S) = 1 /\ RawCharLen(cin.raw) < 100)
     IN /\ cpc' = IF early THEN "chunked" ELSE "loop"
        /\ cout' = IF early
                   THEN chunk_text_raw(cin.raw, cin.mn, cin.mx, cin.ov)
                   ELSE cout
  /\ cst' = LoopStart
  /\ sentences' = SplitRaw(cin.raw)
  /\ UNCHANGED cin
  /\ UNCHANGED <<ingestVars, queryVars, relVars, harnessVars>>

\* one iteration of the loop
ChunkSentence ==
  /\ cpc = "loop"
  /\ cst.i <= Len(sentences)
  /\ cst' = ChunkStep(sentences, cst, cin.mn, cin.mx, cin.ov)
  /\ UNCHANGED <<cin, cout, cpc, sentences>>
  /\ UNCHANGED <<ingestVars, queryVars, relVars, harnessVars>>

\* the end of the loop and the return
ChunkReturn ==
  /\ cpc = "loop"
  /\ cst.i > Len(sentences)
  /\ cout' = ChunkEnd(cst)
  /\ cpc' = "chunked"
  /\ UNCHANGED <<cin, cst, sentences>>
  /\ UNCHANGED <<ingestVars, queryVars, relVars, harnessVars>>

ScenarioNext ==
  \/ EnterChunkText
  \/ ChunkSentence
  \/ ChunkReturn

SpecScenarioA == ScenarioInit /\ [][ScenarioNext]_vars

\* ------------------------------------------------------------------------
\* Scenario C: a query against a store whose only chunk repeats the query
\* ------------------------------------------------------------------------
\* "inverse kinematics" and the chunk "inverse kinematics inverse kinematics"
PhraseQuery == <<1, 2>>
PhraseText == <<1, 2, 0, 1, 2>>

PhrasePoint ==
  VectorItem([url |-> "u1", title |-> "u1", text |-> PhraseText, position |-> 0,
              token_count |-> 4, dim |-> QueryDimensions,
              content_hash |-> md5(PhraseText)], 1)

ScenarioCInit ==
  /\ coll_dim = QueryDimensions
  /\ store = {PhrasePoint}
  /\ provider \in [{PhraseText} -> Dirs]
  /\ sklearn \in BOOLEAN
  /\ qin = NoCall
  /\ qout = NoResult
  /\ qpc = "ready"
  /\ embed_calls = 0
  /\ store_calls = 0
  /\ site = [u \in URLs |-> <<1>>]
  /\ model_dim = 768
  /\ stats = InitStats
  /\ content_pages = <<>>
  /\ failed_urls = <<>>
  /\ client_closed = FALSE
  /\ pc = "off"
  /\ crawled_pages = <<>>
  /\ chunks = <<>>
  /\ cwe = <<>>
  /\ report = NoReport
  /\ runs = 0
  /\ store_at_start = {}
  /\ failed_stages = {}
  /\ written = <<>>
  /\ skipped = <<>>
  /\ check_failed = {}
  /\ gave_up = {}
  /\ ChunkIdle
  /\ RelIdle
  /\ HarnessIdle

ScenarioCNext == SearchWithValidation

SpecScenarioC == ScenarioCInit /\ [][ScenarioCNext]_vars

\* ------------------------------------------------------------------------
\* Concurrent ingestion: several ingesters run idempotent_upsert on the same
\* collection; every client call (scroll, upsert) is one step
\* ------------------------------------------------------------------------
NumIngesters == 2
Ingesters == 1..NumIngesters

\* chunk texts the ingesters may hold, and the items store_vectors builds
SharedTexts == {<<1>>, <<2>>, <<3>>}

ItemOf(w, text, k) ==
  VectorItem([url |-> SitemapUrls[1], title |-> SitemapUrls[1], text |-> text,
              position |-> k - 1, token_count |-> Len(text),
              dim |-> QueryDimensions, content_hash |-> md5(text)], w)

\* the vectors_data of ingester w: one or more distinct texts in some order
VectorsData(w) ==
  {[k \in 1..Len(ts) |-> ItemOf(w, ts[k], k)] :
     ts \in {q \in SeqsUpTo(SharedTexts, Cardinality(SharedTexts)) :
               q # <<>> /\ \A i, j \in 1..Len(q) : i # j => q[i] # q[j]}}

\* idempotent_upsert, entry
StartUpsert(vd) ==
  [vectors_data |-> vd, k |-> 1, filtered |-> <<>>, b |-> 1, pc |-> "check",
   upsert_failed |-> FALSE, wrote |-> {}]

\* idempotent_upsert: the existence check of the next item
CheckExists(w) ==
  /\ ing[w].pc = "check"
  /\ \E scroll_fails \in BOOLEAN :
       LET me == ing[w]
           item == me.vectors_data[me.k]
           kept == IF vector_exists(store, item.payload.content_hash, scroll_fails)
                   THEN me.filtered ELSE Append(me.filtered, item)
           last == me.k = Len(me.vectors_data)
       IN ing' = [ing EXCEPT ![w] =
                    [me EXCEPT !.k = @ + 1, !.filtered = kept,
                               !.pc = IF ~last THEN "check"
                                      ELSE IF kept = <<>> THEN "done"
                                      ELSE "write"]]
  /\ UNCHANGED <<site, model_dim, store, coll_dim, stats, content_pages,
                 failed_urls, client_closed, pc, crawled_pages, chunks, cwe,
                 report, runs, store_at_start, failed_stages, written, skipped,
                 check_failed, gave_up>>
  /\ UNCHANGED <<chunkVars, queryVars, relVars, emb>>

\* upsert_vectors: client.upsert of the next batch of the filtered items
UpsertNextBatch(w) ==
  /\ ing[w].pc = "write"
  /\ \E upsert_fails \in BOOLEAN :
       LET me == ing[w]
           batch == SubSeq(me.filtered, (me.b - 1) * ModelBatchSize + 1,
                           Min2(me.b * ModelBatchSize, Len(me.filtered)))
           last == me.b * ModelBatchSize >= Len(me.filtered)
       IN /\ store' = IF upsert_fails THEN store ELSE UpsertBatch(store, batch)
          /\ ing' = [ing EXCEPT ![w] =
                       [me EXCEPT !.b = @ + 1,
                                  !.upsert_failed = @ \/ upsert_fails,
                                  !.wrote = IF upsert_fails THEN @
                                            ELSE @ \cup {batch[i].id : i \in 1..Len(batch)},
                                  !.pc = IF last THEN "done" ELSE "write"]]
  /\ UNCHANGED <<site, model_dim, coll_dim, stats, content_pages,
                 failed_urls, client_closed, pc, crawled_pages, chunks, cwe,
                 report, runs, store_at_start, failed_stages, written, skipped,
                 check_failed, gave_up>>
  /\ UNCHANGED <<chunkVars, queryVars, relVars, emb>>

ConcurrentInit ==
  /\ coll_dim = QueryDimensions
  /\ store = {}
  /\ ing \in [Ingesters -> UNION {{StartUpsert(vd) : vd \in VectorsData(w)} : w \in Ingesters}]
  /\ \A w \in Ingesters : ing[w].vectors_data \in VectorsData(w)
  /\ emb = NoEmbed
  /\ site = [u \in URLs |-> <<1>>]
  /\ model_dim = 768
  /\ stats = InitStats
  /\ content_pages = <<>>
  /\ failed_urls = <<>>
  /\ client_closed = FALSE
  /\ pc = "off"
  /\ crawled_pages = <<>>
  /\ chunks = <<>>
  /\ cwe = <<>>
  /\ report = NoReport
  /\ runs = 0
  /\ store_at_start = {}
  /\ failed_stages = {}
  /\ written = <<>>
  /\ skipped = <<>>
  /\ check_failed = {}
  /\ gave_up = {}
  /\ ChunkIdle
  /\ QueryIdle
  /\ rin = [query |-> <<>>]
  /\ rout = NoRelevance
  /\ rpc = "off"

ConcurrentNext ==
  \E w \in Ingesters :
    \/ CheckExists(w)
    \/ UpsertNextBatch(w)

SpecConcurrent == ConcurrentInit /\ [][ConcurrentNext]_vars

\* ------------------------------------------------------------------------
\* EmbeddingService.generate_embeddings, one provider call or sleep per step,
\* and the zip of IngestionService.generate_embeddings after it
\* ------------------------------------------------------------------------
RETRY_DELAY == 1

\* a fixed delay between attempts
BackoffFixed(attempt) == RETRY_DELAY

\* time.sleep(RETRY_DELAY * (2 ** attempt))
Backoff(attempt) == RETRY_DELAY * 2^attempt

\* the embedding the provider computes for a text
EmbeddingOf(text) == <<"embedding", text>>

\* response.embeddings of client.embed(texts=batch)
Embed(batch) == [k \in 1..Len(batch) |-> EmbeddingOf(batch[k])]

EmbedTexts == SeqsUpTo({<<1>>, <<2>>}, MaxTexts)
AttemptSettings == 0..MaxAttempts

\* texts[i:i + batch_size], i counted from 0
BatchAt(texts, i) == SubSeq(texts, i + 1, Min2(i + ModelEmbedBatch, Len(texts)))

\* the outer loop moves on to the next batch, or the function returns
NextBatch(e) ==
  [e EXCEPT !.i = @ + ModelEmbedBatch, !.attempt = 0,
            !.pc = IF e.i + ModelEmbedBatch >= Len(e.texts) THEN "returned" ELSE "call"]

\* an entry of the history of provider calls and sleeps
Event(e, ev, d) ==
  [b |-> e.i \div ModelEmbedBatch + 1, n |-> e.attempt, ev |-> ev, d |-> d,
   late |-> e.deadline_passed]

\* generate_embeddings(texts) under a RETRY_ATTEMPTS setting, after the test
\* for an empty list
StartEmbed(texts, attempts) ==
  [texts |-> texts, attempts |-> attempts, i |-> 0, attempt |-> 0,
   all_embeddings |-> <<>>, log |-> <<>>, deadline_passed |-> FALSE,
   pc |-> IF texts = <<>> THEN "returned" ELSE "call",
   cwe |-> <<>>, error |-> FALSE]

\* one pass of the retry loop: client.embed succeeds or raises; with an empty
\* range(RETRY_ATTEMPTS) the body is not entered and the batch is passed over
EmbedAttempt ==
  /\ emb.pc = "call"
  /\ IF emb.attempt >= emb.attempts
     THEN emb' = NextBatch(emb)
     ELSE \E raises \in BOOLEAN :
            IF ~raises
            THEN emb' = NextBatch([emb EXCEPT
                          !.all_embeddings = @ \o Embed(BatchAt(emb.texts, emb.i)),
                          !.log = Append(@, Event(emb, "ok", 0))])
            ELSE emb' = [emb EXCEPT
                          !.log = Append(@, Event(emb, "fail", 0)),
                          !.pc = IF emb.attempt = emb.attempts - 1
                                 THEN "raised" ELSE "sleep"]
  /\ UNCHANGED <<ingestVars, chunkVars, queryVars, relVars, ing>>

\* time.sleep before the next attempt
EmbedSleep ==
  /\ emb.pc = "sleep"
  /\ emb' = [emb EXCEPT !.log = Append(@, Event(emb, "sleep", Backoff(emb.attempt))),
                        !.attempt = @ + 1, !.pc = "call"]
  /\ UNCHANGED <<ingestVars, chunkVars, queryVars, relVars, ing>>

\* IngestionService.generate_embeddings after the call: the chunks that have
\* an embedding at their index, or the error and no chunk
CombineEmbeddings ==
  /\ emb.pc \in {"returned", "raised"}
  /\ emb' = IF emb.pc = "raised"
            THEN [emb EXCEPT !.pc = "done", !.error = TRUE, !.cwe = <<>>]
            ELSE [emb EXCEPT !.pc = "done",
                    !.cwe = [k \in 1..Min2(Len(emb.texts), Len(emb.all_embeddings)) |->
                               [text |-> emb.texts[k],
                                embedding |-> emb.all_embeddings[k],
                                content_hash |-> md5(emb.texts[k])]]]
  /\ UNCHANGED <<ingestVars, chunkVars, queryVars, relVars, ing>>

\* the deadline of the caller passes while generate_embeddings is running;
\* the function takes no deadline and has no await in which a cancellation
\* could be delivered
DeadlinePasses ==
  /\ emb.pc \in {"call", "sleep"}
  /\ ~emb.deadline_passed
  /\ emb' = [emb EXCEPT !.deadline_passed = TRUE]
  /\ UNCHANGED <<ingestVars, chunkVars, queryVars, relVars, ing>>

EmbedInit ==
  /\ IngestOff
  /\ ChunkIdle
  /\ QueryIdle
  /\ RelIdle
  /\ ing = NoIngesters
  /\ emb \in {StartEmbed(texts, attempts) : texts \in EmbedTexts, attempts \in AttemptSettings}

EmbedNext ==
  \/ EmbedAttempt
  \/ EmbedSleep
  \/ CombineEmbeddings
  \/ DeadlinePasses

SpecEmbed == EmbedInit /\ [][EmbedNext]_vars

\* ------------------------------------------------------------------------
\* Properties
\* ------------------------------------------------------------------------
RunOver == pc \in {"finish", "done"}

\* C1: re-ingestion is idempotent.  When a run has ended and every chunk
\* text of the pages it processed already had a point in the store when the
\* run started, the set of stored point ids and the point count are the ones
\* the run started with.
C1_ReingestIdempotent ==
  (RunOver /\ chunks # <<>>
     /\ \A i \in 1..Len(chunks) : chunks[i].text \in TextsOf(store_at_start))
  => /\ IdsOf(store) = IdsOf(store_at_start)
     /\ Cardinality(store) = Cardinality(store_at_start)

\* a second run that reached the store with chunks that were all stored
\* before, and skipped every one of them
C1_Witness ==
  /\ pc = "done" /\ runs = 2 /\ cwe # <<>>
  /\ \A i \in 1..Len(chunks) : chunks[i].text \in TextsOf(store_at_start)
  /\ Len(skipped) = Len(cwe)
  /\ report.vectors_stored > 0

\* one point per distinct chunk text, filed under the hash of that text
OnePointPerText ==
  \A p, q \in store :
    /\ p.id = md5(p.payload.text)
    /\ p.payload.text = q.payload.text => p = q

\* C2 as stated: one point per chunk text, and every further occurrence of a
\* text (one that is already stored, or that came earlier in the same run)
\* is skipped, never written.
C2_SecondOccurrenceSkipped ==
  /\ OnePointPerText
  /\ RunOver =>
       \A k \in 1..Len(written) :
         /\ written[k].payload.text \notin TextsOf(store_at_start)
         /\ \A j \in 1..(k - 1) : written[j].payload.text # written[k].payload.text

\* C2 amended: one point per chunk text under the hash of the text; an
\* occurrence is skipped exactly when a point with its text was stored when
\* the run started and its existence check did not fail; every other
\* occurrence is written under the same id.
C2_OnePointPerText ==
  /\ OnePointPerText
  /\ RunOver =>
       /\ \A k \in 1..Len(skipped) :
            skipped[k].payload.text \in TextsOf(store_at_start)
       /\ \A k \in 1..Len(written) :
            written[k].payload.text \in TextsOf(store_at_start)
              => check_failed # {}
       /\ "collection" \notin failed_stages
            => Len(written) + Len(skipped) = Len(cwe)

\* the same chunk text reached the store from two urls: once skipped in a
\* later run, once written twice within one run
C2_Witness ==
  /\ pc = "done"
  /\ \/ \E k \in 1..Len(skipped) : \E p \in store :
          /\ p.payload.text = skipped[k].payload.text
          /\ p.payload.url # skipped[k].payload.url
     \/ \E j, k \in 1..Len(written) :
          /\ j < k
          /\ written[j].payload.text = written[k].payload.text
          /\ written[j].payload.url # written[k].payload.url
          /\ written[k] \in store

ErrorOf(stage) ==
  CASE stage = "chunking" -> "chunking"
    [] stage = "embedding" -> "embedding"
    [] stage = "collection" -> "pipeline"
    [] stage = "write" -> "storage"

\* C3: whichever stage fails, the run returns its report, the failure is
\* listed in errors and the status is 'completed_with_errors'.
C3_FailureIsReported ==
  (pc = "done" /\ failed_stages # {})
  => /\ report.status = "completed_with_errors"
     /\ \A stage \in failed_stages :
          \E k \in 1..Len(report.errors) : report.errors[k] = ErrorOf(stage)

\* the operations a caller retrieves with
PlainOps == {"search", "retrieve_chunks"}
RetrievalOps == PlainOps \cup {"retrieve_chunks_with_selected_text"}

\* C4: when the query embedding's dimension differs from the collection's,
\* the query operation raises a configuration error to its caller and does
\* not return an empty list.
C4_DimensionGuard ==
  (qpc = "done" /\ qin.op \in PlainOps /\ qout.fault = "dimension")
    => qout.kind = "raise"

C6_FailureGivesEmptyList ==
  (qpc = "done" /\ qin.op \in PlainOps)
    => /\ qout.kind = "list"
       /\ (qout.fault # "none" => qout.results = <<>>)

\* C7: the scored results of a query are ordered by combined_relevance
\* descending, equal combined_relevance by store score descending.
C7_OrderedByCombinedRelevance ==
  (qpc = "done" /\ qin.op = "search_with_validation" /\ qout.kind = "list")
    => \A i, j \in 1..Len(qout.results) :
         i < j =>
           \/ qout.results[i].combined_relevance
                > qout.results[j].combined_relevance
           \/ /\ qout.results[i].combined_relevance
                   = qout.results[j].combined_relevance
              /\ qout.results[i].score >= qout.results[j].score

\* C8: a result's is_relevant flag is true exactly when its
\* combined_relevance reaches the configured relevance threshold, and the
\* relevant_count and the precision count are counts of that same condition.
C8_OneRelevanceThreshold ==
  (qpc = "done" /\ qin.op = "validate" /\ qout.kind = "report")
    => /\ \A i \in 1..Len(qout.results) :
            qout.results[i].is_relevant
              <=> (qout.results[i].combined_relevance
                     >= 2 * RELEVANCE_THRESHOLD)
       /\ qout.relevant_count = qout.precision_relevant

\* C9: combined_relevance is the mean of embedding_similarity and
\* text_similarity and lies in [0,1] for every pair, pairs of negative
\* cosine and pairs scored without embeddings included.
C9_CombinedRelevanceInUnitInterval ==
  rpc = "scored"
    => /\ rout.combined_relevance
            = rout.embedding_similarity + rout.text_similarity
       /\ rout.combined_relevance >= 0
       /\ rout.combined_relevance <= 2 * 1000

\* the overlap text a chunk was started with
OverlapPrefix(cs, j, ov) ==
  IF j = 1 \/ ov = 0 THEN <<>> ELSE get_overlap_text(SubSeq(cs, 1, j - 1), ov)

\* the region of a chunk after its overlap prefix
NonOverlap(cs, j, ov) ==
  SubSeq(cs[j].text, Len(OverlapPrefix(cs, j, ov)) + 1, Len(cs[j].text))

\* whitespace normalisation: the tokens of a text without its blanks
Normalise(t) == SelectSeq(t, LAMBDA x : x # 0)

\* the tokens of the input text, in order
InputTokens(lens) == [k \in 1..SumSeq(lens) |-> k]

\* the tokens of sentence j of the input
SentenceTokens(lens, j) ==
  {SumSeq(SubSeq(lens, 1, j - 1)) + k : k \in 1..lens[j]}

\* C11: every chunk starts with its overlap prefix, the regions after the
\* prefixes concatenated in order are the input text up to blanks, and every
\* sentence lies whole in the region of one chunk.
C11_ChunkCoverage ==
  cpc = "chunked"
    => /\ \A j \in 1..Len(cout) :
            SubSeq(cout[j].text, 1, Len(OverlapPrefix(cout, j, cin.ov)))
              = OverlapPrefix(cout, j, cin.ov)
       /\ Normalise(Flatten([j \in 1..Len(cout) |-> NonOverlap(cout, j, cin.ov)]))
            = InputTokens(cin.lens)
       /\ \A n \in 1..Len(cin.lens) :
            \E j \in 1..Len(cout) :
              SentenceTokens(cin.lens, n)
                \subseteq {NonOverlap(cout, j, cin.ov)[k] :
                             k \in 1..Len(NonOverlap(cout, j, cin.ov))}

\* a text of three sentences cut into three chunks, two of them started
\* with an overlap prefix
C11_Witness ==
  /\ cpc = "chunked"
  /\ cin.ov > 0
  /\ Len(cin.lens) = 3
  /\ Len(cout) = 3
  /\ \A j \in 2..3 : OverlapPrefix(cout, j, cin.ov) # <<>>
  /\ \A j \in 1..3 : NonOverlap(cout, j, cin.ov) # <<>>

\* the tokens of a text
TokensOf(t) == {t[k] : k \in 1..Len(t)}

\* chunk i+1 begins with the last n tokens of chunk i and shares no other
\* token with it
SharesTail(cs, i, n) ==
  /\ Len(cs[i].text) >= n
  /\ Len(cs[i + 1].text) >= n
  /\ SubSeq(cs[i + 1].text, 1, n)
       = SubSeq(cs[i].text, Len(cs[i].text) - n + 1, Len(cs[i].text))
  /\ \A k \in (n + 1)..Len(cs[i + 1].text) :
       cs[i + 1].text[k] \notin TokensOf(cs[i].text)

BlankInput(raw) == Strip(RawText(raw)) = <<>>

\* the input is one sentence of fewer than 100 characters
ShortSingleSentence(raw) == Len(raw.lens) = 1 /\ RawCharLen(raw) < 100

\* C13 as stated: empty or blank input gives the empty list, and a short
\* single-sentence input gives exactly one chunk whose text is the input
\* verbatim.
C13_ShortInputVerbatim ==
  cpc = "chunked"
    => /\ BlankInput(cin.raw) => cout = <<>>
       /\ ShortSingleSentence(cin.raw)
            => (Len(cout) = 1 /\ cout[1].text = RawText(cin.raw))

\* C13 amended: empty or blank input gives the empty list; a single sentence
\* of fewer than 100 characters with no blank after a closing terminator
\* gives exactly one chunk whose text is the input verbatim; any other
\* single-sentence input gives a first chunk whose text is the input
\* stripped of its leading and trailing blanks, and that chunk is the only
\* one if the sentence has no more than max_tokens tokens.
C13_ShortInputStripped ==
  cpc = "chunked"
    => /\ BlankInput(cin.raw) => cout = <<>>
       /\ (ShortSingleSentence(cin.raw) /\ ~(cin.raw.term /\ cin.raw.trail))
            => (Len(cout) = 1 /\ cout[1].text = RawText(cin.raw))
       /\ (Len(cin.raw.lens) = 1
           /\ (~ShortSingleSentence(cin.raw) \/ (cin.raw.term /\ cin.raw.trail)))
            => /\ Len(cout) >= 1
               /\ cout[1].text = Strip(RawText(cin.raw))
               /\ cin.raw.lens[1] <= cin.mx => Len(cout) = 1

\* a short sentence between blanks, without a terminator, returned with its
\* blanks
C13_Witness ==
  /\ cpc = "chunked"
  /\ ShortSingleSentence(cin.raw)
  /\ cin.raw.lead /\ cin.raw.trail /\ ~cin.raw.term
  /\ Len(cout) = 1
  /\ cout[1].text = RawText(cin.raw)
  /\ cout[1].text # Strip(RawText(cin.raw))

\* C14: when the embedding provider fails for good, the chunks of the run
\* are not dropped: they are given placeholder embeddings and stored with
\* the others.
C14_PlaceholderOnProviderFailure ==
  (pc = "done" /\ failed_stages = {"embedding"})
    => /\ Len(cwe) = Len(chunks)
       /\ \A i \in 1..Len(chunks) : chunks[i].text \in TextsOf(store)

\* the chunks of the run that have their point in the store
StoredChunks == {i \in 1..Len(cwe) : cwe[i].text \in TextsOf(store)}

\* C15: a vector write that fails for good is recorded in the report's
\* errors, and the report counts as stored only what the store took.
C15_WriteFailureRecorded ==
  (pc = "done" /\ "write" \in failed_stages)
    => /\ report.errors # <<>>
       /\ report.vectors_stored <= Cardinality(StoredChunks)

\* C16: on the second ingestion of an unchanged document the report counts
\* every chunk as a skipped duplicate and no vector as stored.
C16_SecondRunReportsSkips ==
  (pc = "done" /\ runs = 2 /\ chunks # <<>> /\ failed_stages = {}
     /\ check_failed = {}
     /\ \A i \in 1..Len(chunks) : chunks[i].text \in TextsOf(store_at_start))
    => /\ Len(skipped) = report.chunks_processed
       /\ report.vectors_stored = 0

\* the validation run has returned a report
ReportReturned == qpc = "done" /\ qout.kind = "validation_report"

\* the entries of the top-k slices of the report's queries, as <<query, rank>>
TopKEntries(k) ==
  {e \in (1..Len(qout.searches)) \X (1..k) :
     e[2] <= Len(qout.searches[e[1]].results)}

\* C17: precision@k of the validation report, for k in {1,3,5}, is the number
\* of relevant results in the top-k slices of all queries divided by the
\* number of results in those slices, a fraction between 0 and 1.
C17_PrecisionIsFraction ==
  ReportReturned =>
    \A k \in {1, 3, 5} :
      LET considered == TopKEntries(k)
          relevant == {e \in considered :
                         qout.searches[e[1]].results[e[2]].is_relevant}
      IN considered # {} =>
           /\ qout.precision_metrics[k] \in 0..10000
           /\ qout.precision_metrics[k] =
                RoundDiv(10000 * Cardinality(relevant), Cardinality(considered))

\* every result of the report's queries, as <<query, rank>>
AllEntries ==
  {e \in (1..Len(qout.searches)) \X (1..TOP_K) :
     e[2] <= Len(qout.searches[e[1]].results)}

\* the combined_relevance the validation computes for one result
EntryRelevance(e) ==
  relevance_details(qout.searches[e[1]].query,
                    qout.searches[e[1]].results)[e[2]].combined_relevance

RECURSIVE SumRelevance(_)
SumRelevance(S) ==
  IF S = {} THEN 0
  ELSE LET e == CHOOSE x \in S : TRUE IN EntryRelevance(e) + SumRelevance(S \ {e})

\* C18: the mean relevance of the validation report is the average of
\* combined_relevance over all results of all queries, every result weighing
\* the same and queries without results contributing nothing (up to the
\* rounding of the report, two ten-thousandths).
C18_MeanOverAllResults ==
  ReportReturned /\ AllEntries # {} =>
    LET mean == RoundDiv(5 * SumRelevance(AllEntries), Cardinality(AllEntries))
    IN qout.avg_relevance_score \in (mean - 2)..(mean + 2)

\* the stored point a result was read from
StoredPoint(result) == CHOOSE p \in store : p.id = result.id

\* C19: metadata accuracy is the percentage of the returned results whose
\* stored point carries url, title and position; a result whose stored payload
\* lacks one of the three is counted as invalid and listed under issues.
C19_MetadataAccuracy ==
  ReportReturned /\ AllEntries # {} =>
    LET result(e) == qout.searches[e[1]].results[e[2]]
        complete == {e \in AllEntries :
                       {"url", "title", "position"}
                         \subseteq DOMAIN StoredPoint(result(e)).payload}
        m == qout.metadata_validation
    IN /\ m.valid_metadata_count = Cardinality(complete)
       /\ m.metadata_accuracy_percentage =
            100 * RoundDiv(10000 * Cardinality(complete), Cardinality(AllEntries))
       /\ m.issues = {result(e).id : e \in AllEntries \ complete}

\* the labeled accuracy validation has returned
AccuracyReturned == qpc = "done" /\ qout.kind = "accuracy_report"

\* the expected result of a pair is the result r
IsExpected(pair, r) ==
  \/ pair.expected_result_id # NoneVal /\ r.id = pair.expected_result_id
  \/ pair.expected_text # <<>>
       /\ \E i \in 1..Len(r.text), j \in 1..Len(r.text) :
            SubSeq(r.text, i, j) = pair.expected_text

\* C20: in labeled accuracy validation a query is correct iff its expected
\* result, by id or by text substring, is among the returned results;
\* rank_of_expected is the 1-indexed position of the first match and -1 without
\* one, found_expected holds iff 1 <= rank_of_expected <= total_results, and
\* accuracy is correct_retrievals / total_queries.
C20_LabeledAccuracy ==
  AccuracyReturned =>
    /\ \A q \in 1..Len(qin.pairs) :
         LET d == qout.detailed_results[q]
             rs == d.search_results
             hits == {i \in 1..Len(rs) : IsExpected(qin.pairs[q], rs[i])}
         IN /\ d.found_expected <=> hits # {}
            /\ hits # {} => d.rank_of_expected \in hits
                             /\ \A i \in hits : d.rank_of_expected <= i
            /\ hits = {} => d.rank_of_expected = -1
            /\ d.found_expected <=>
                 (1 <= d.rank_of_expected /\ d.rank_of_expected <= d.total_results)
    /\ qout.total_queries = Len(qin.pairs)
    /\ qout.correct_retrievals =
         Cardinality({q \in 1..Len(qin.pairs) : qout.detailed_results[q].found_expected})
    /\ qout.total_queries > 0 =>
         qout.accuracy = (10000 * qout.correct_retrievals) \div qout.total_queries

\* one query finds its expected result by text below another result, the
\* other query does not find it
C20_Witness ==
  /\ AccuracyReturned
  /\ Len(qin.pairs) = 2
  /\ \E q \in 1..2 : qout.detailed_results[q].rank_of_expected >= 2
                      /\ qin.pairs[q].expected_result_id = NoneVal
  /\ \E q \in 1..2 : qout.detailed_results[q].rank_of_expected = -1
                      /\ qout.detailed_results[q].total_results > 0
  /\ qout.accuracy = 5000

\* the validation run has ended, with a report or by raising
ValidationRunEnded == qpc = "done" /\ qin.op = "run_comprehensive_validation"

\* C21: a validation run always produces a report that covers every query of
\* the batch; a query whose retrieval or scoring fails is an entry without
\* results, and the other queries are still processed.
C21_ReportAlwaysProduced ==
  ValidationRunEnded =>
    /\ qout.kind = "validation_report"
    /\ Len(qout.searches) = Len(qin.queries)
    /\ \A q \in 1..Len(qin.queries) : qout.searches[q].query = qin.queries[q]

\* C22: a document that cannot be fetched is reported as failed and skipped
\* without aborting the batch: every url process_url gave up on is recorded in
\* failed_urls, and the pages of the other urls are still crawled.
C22_FailedDocumentsReported ==
  pc \in {"chunk", "finish"} =>
    /\ \A u \in gave_up : \E i \in 1..Len(failed_urls) : failed_urls[i] = u
    /\ \A u \in URLs \ gave_up :
         PageOf(u, site[u]) # <<>>
           => \E i \in 1..Len(crawled_pages) : crawled_pages[i].url = u

\* the number of tokens at the head of chunk i+1 that end chunk i
RECURSIVE SharedTokens(_, _, _)
SharedTokens(cs, i, n) ==
  IF n = 0 \/ (n <= Len(cs[i].text) /\ n <= Len(cs[i + 1].text)
               /\ SubSeq(cs[i + 1].text, 1, n)
                    = SubSeq(cs[i].text, Len(cs[i].text) - n + 1, Len(cs[i].text)))
  THEN n ELSE SharedTokens(cs, i, n - 1)

\* C23: a 3000-token document of short sentences chunked with min_tokens 500,
\* max_tokens 1200 and overlap 100 gives exactly 3 chunks, each with token_count
\* within the bounds, and consecutive chunks share 100 tokens.
C23_ScenarioA ==
  (cpc = "chunked" /\ cin \in ScenarioInputs) =>
    /\ Len(cout) = 3
    /\ \A i \in 1..Len(cout) :
         /\ cout[i].token_count >= CHUNK_SIZE_MIN
         /\ cout[i].token_count <= CHUNK_SIZE_MAX
    /\ \A i \in 1..(Len(cout) - 1) :
         SharedTokens(cout, i, CHUNK_OVERLAP + 10) = CHUNK_OVERLAP

\* the document of 10-token sentences has been chunked
C23_Witness ==
  /\ cpc = "chunked"
  /\ cin \in ScenarioInputs
  /\ cin.lens = ScenarioLens(10)
  /\ SumSeq(cin.lens) = 3000
  /\ Len(cout) = 3

\* C24: the query "inverse kinematics" against a store whose only chunk is that
\* phrase repeated returns exactly one result, whose combined_relevance is at
\* least 0.9.
C24_ScenarioC ==
  (qpc = "done" /\ qin.op = "search_with_validation" /\ qin.query = PhraseQuery
     /\ store = {PhrasePoint} /\ provider[PhraseText] = QueryDir
     /\ qout.fault = "none" /\ qout.kind = "list")
    => /\ Len(qout.results) = 1
       /\ 10 * qout.results[1].combined_relevance >= 9 * 2000

\* every ingester has finished idempotent_upsert
AllIngested == ing # NoIngesters /\ \A w \in Ingesters : ing[w].pc = "done"

\* C25: when several ingesters run the check-then-write sequence for
\* overlapping sets of chunks under any interleaving of their store calls,
\* then once all have finished the store holds at most one point per distinct
\* chunk text, filed under the hash of the text; and when the store accepted
\* every write call it holds exactly one point per distinct chunk text and its
\* ids are the content hashes of the texts, whatever the order of the writes.
C25_ConcurrentConvergence ==
  AllIngested
    => LET items == UNION {{ing[w].vectors_data[k] :
                              k \in 1..Len(ing[w].vectors_data)} : w \in Ingesters}
       IN /\ \A p, q \in store : p.payload.text = q.payload.text => p = q
          /\ \A p \in store : p.id = md5(p.payload.text)
          /\ TextsOf(store) \subseteq {it.payload.text : it \in items}
          /\ (\A w \in Ingesters : ~ing[w].upsert_failed)
               => /\ TextsOf(store) = {it.payload.text : it \in items}
                  /\ IdsOf(store) = {md5(it.payload.text) : it \in items}

\* both ingesters found the same chunk missing and both wrote it
C25_Witness ==
  /\ AllIngested
  /\ \A w \in Ingesters : ~ing[w].upsert_failed
  /\ ing[1].wrote \cap ing[2].wrote # {}
  /\ Cardinality(store) = Cardinality(SharedTexts)

\* the history of generate_embeddings once it has been called
EmbedLog == IF emb = NoEmbed THEN <<>> ELSE emb.log

\* C26: for each embedding batch the provider is called at most
\* RETRY_ATTEMPTS times, no call for the batch follows its first success, a
\* failed attempt n (from 0) that is not the last is followed by a sleep of
\* RETRY_DELAY * 2^n and then by attempt n + 1, and the last failed attempt
\* is followed by nothing: the function raises without sleeping.
C26_BoundedBackoff ==
  LET log == EmbedLog
      calls(b) == {k \in 1..Len(log) : log[k].b = b /\ log[k].ev # "sleep"}
  IN /\ \A k \in 1..Len(log) :
          /\ Cardinality(calls(log[k].b)) <= emb.attempts
          /\ log[k].ev = "ok" =>
                \A j \in (k + 1)..Len(log) : log[j].b # log[k].b
          /\ (log[k].ev = "fail" /\ log[k].n < emb.attempts - 1) =>
                IF k = Len(log) THEN emb.pc = "sleep"
                ELSE /\ log[k + 1].ev = "sleep"
                     /\ log[k + 1].d = RETRY_DELAY * 2^(log[k].n)
                     /\ log[k + 1].b = log[k].b
          /\ (log[k].ev = "fail" /\ log[k].n >= emb.attempts - 1) =>
                k = Len(log) /\ emb.pc \in {"raised", "done"}
          /\ log[k].ev = "sleep" =>
                IF k = Len(log) THEN emb.pc = "call"
                ELSE /\ log[k + 1].ev # "sleep"
                     /\ log[k + 1].b = log[k].b
                     /\ log[k + 1].n = log[k].n + 1
          /\ log[k].ev # "sleep" => log[k].n = Cardinality({j \in calls(log[k].b) : j < k})
     /\ (emb # NoEmbed /\ emb.pc = "raised") =>
          (log # <<>> /\ log[Len(log)].ev = "fail")

\* a batch failed twice, slept 1 and 2, and a third attempt ended the retries
C26_Witness ==
  /\ emb # NoEmbed
  /\ emb.attempts = 3
  /\ \E k \in 1..Len(emb.log) : emb.log[k].ev = "sleep" /\ emb.log[k].d = 2 * RETRY_DELAY
  /\ emb.pc = "raised"
  /\ \E k \in 1..Len(emb.log) : emb.log[k].ev = "ok"

\* C27: a stuck provider cannot hang the run: the provider calls and sleeps
\* are bounded, and once the deadline of the caller has passed no further
\* provider call or sleep is made.
C27_DeadlineCancelsRetries ==
  /\ Len(EmbedLog) <= 2 * MaxAttempts * ((MaxTexts + ModelEmbedBatch - 1) \div ModelEmbedBatch)
  /\ \A k \in 1..Len(EmbedLog) : ~EmbedLog[k].late

\* C28: generate_embeddings sends consecutive batches of at most batch_size
\* texts and, for every RETRY_ATTEMPTS setting and every pattern of provider
\* failures, either raises or returns exactly one embedding per input text in
\* input order, so every chunk is paired with the embedding of its own text.
C28_AlignedOrRaises ==
  (emb # NoEmbed /\ emb.pc = "done" /\ ~emb.error)
    => /\ Len(emb.all_embeddings) = Len(emb.texts)
       /\ \A k \in 1..Len(emb.texts) : emb.all_embeddings[k] = EmbeddingOf(emb.texts[k])
       /\ Len(emb.cwe) = Len(emb.texts)
       /\ \A k \in 1..Len(emb.cwe) :
            emb.cwe[k].embedding = EmbeddingOf(emb.cwe[k].text)

\* C29: retrieval applies the top_k and the score threshold the caller passed
\* and uses the configured defaults only for an argument that is None: the
\* call returns the best top_k of the points that score at least the
\* threshold, so an explicit threshold of 0.0 is searched with as given.
C29_CallerLimitsApplied ==
  (/\ qpc = "done"
   /\ qin.op = "retrieve_chunks"
   /\ Strip(qin.query) # <<>>
   /\ qout.fault = "none"
   /\ ~qout.placeholder)
    => LET k == IF qin.top_k = NoneVal THEN RETRIEVAL_TOP_K ELSE qin.top_k
           t == IF qin.threshold = NoneVal THEN RETRIEVAL_THRESHOLD
                ELSE qin.threshold
           qvec == Vec(QueryDimensions, QueryDir)
           passing == {p \in store : cosine_similarity(qvec, PointVec(p)) >= t}
       IN /\ Len(qout.results) = Min2(k, Cardinality(passing))
          /\ \A i \in 1..Len(qout.results) :
               \E p \in passing : qout.results[i].id = p.id

\* C30: every report describes its own run only: a finished run in which no
\* stage failed reports 'completed_successfully' with an empty errors list,
\* and counts no more pages than the run fetched, whatever happened in the
\* runs made before it on the same IngestionService.
C30_ReportOfOwnRun ==
  (pc = "done" /\ runs >= 1 /\ failed_stages = {})
    => /\ report.status = "completed_successfully"
       /\ report.errors = <<>>
       /\ report.pages_crawled <= Cardinality(URLs \ gave_up)

\* C10: every chunk but the last has min_tokens <= token_count <= max_tokens.
C10_BoundedChunkSize ==
  (cpc = "chunked" /\ cin.mn <= cin.mx)
  => \A i \in 1..(Len(cout) - 1) :
       /\ cin.mn <= cout[i].token_count
       /\ cout[i].token_count <= cin.mx

====
